---- MODULE Spec2Model ----
(***************************************************************************)
(* State-machine model of the client-side persistence layer of the         *)
(* expense tracker: ExpenseProvider (src/context/ExpenseContext.tsx) and   *)
(* AuthProvider (src/context/AuthContext.tsx, first provider of the file). *)
(*                                                                         *)
(* The remote document store is modelled as a keyed collection that any    *)
(* client may write; a provider's in-memory collection in cloud mode is    *)
(* the content of the store at the last delivered subscription snapshot.   *)
(***************************************************************************)
EXTENDS Integers, Sequences, FiniteSets, TLC

(***************************************************************************)
(* Bounds of the model.                                                    *)
(***************************************************************************)
\* longest in-memory expense collection built in local mode
MaxExpenses == 2
\* last value the clock takes (milliseconds since the first read)
MaxNow == 2

(***************************************************************************)
(* Values.                                                                 *)
(***************************************************************************)
\* document identifiers, in the order the store iterates a collection
IdOrder == <<"e1", "e2", "e3">>
\* the identifiers the operations are called with
Ids == {IdOrder[i] : i \in 1..2}
Owners == {"u1", "u2"}
T1 == "2024-01-01T00:00:00.000Z"
T2 == "2024-01-02T00:00:00.000Z"
Times == {T1, T2}
Statuses == {"Submitted", "Approved", "Rejected"}
\* the notes argument of updateStatus when it is not passed
Undefined == "<undefined>"

\* new Date(iso).getTime(), in days since the epoch
GetTime(iso) ==
    CASE iso = T1 -> 19723
      [] iso = T2 -> 19724

\* JavaScript truthiness of an optional string
Truthy(s) == s # Undefined /\ s # ""

\* a merge that resets the notes the partial record does not name
MergeFieldsResettingNotes(exp, patch) ==
    [f \in DOMAIN exp |->
        IF f \in DOMAIN patch THEN patch[f]
        ELSE IF f = "notes" THEN "" ELSE exp[f]]

\* { ...exp, ...updatedExpense } and updateDoc(ref, updatedExpense)
MergeFields(exp, patch) ==
    [f \in DOMAIN exp |-> IF f \in DOMAIN patch THEN patch[f] ELSE exp[f]]

\* { ...exp, status, notes }: the notes argument always written when passed
WithStatusAlwaysNotes(exp, status, notes) ==
    [exp EXCEPT !.status = status,
                !.notes = IF notes # Undefined THEN notes ELSE exp.notes]

\* { ...exp, status, notes: notes ? notes : exp.notes }
WithStatus(exp, status, notes) ==
    [exp EXCEPT !.status = status,
                !.notes = IF Truthy(notes) THEN notes ELSE exp.notes]

\* const updateData = { status }; if (notes) updateData.notes = notes
StatusUpdateData(status, notes) ==
    IF Truthy(notes) THEN [status |-> status, notes |-> notes]
                     ELSE [status |-> status]

\* the comparator of expensesData.sort: negative when a goes before b
CompareByDate(a, b) == GetTime(b.createdAt) - GetTime(a.createdAt)

\* insertion of e behind every element that does not sort after it
RECURSIVE InsertSorted(_, _)
InsertSorted(e, s) ==
    IF s = <<>> THEN <<e>>
    ELSE IF CompareByDate(Head(s), e) <= 0
         THEN <<Head(s)>> \o InsertSorted(e, Tail(s))
         ELSE <<e>> \o s

\* Array.prototype.sort with CompareByDate (a stable sort)
RECURSIVE SortByDate(_)
SortByDate(s) ==
    IF s = <<>> THEN <<>>
    ELSE InsertSorted(s[Len(s)], SortByDate(SubSeq(s, 1, Len(s) - 1)))

\* data.createdAt?.toDate ? data.createdAt.toDate().toISOString() : data.createdAt
\* (the documents written by this program hold ISO strings, which have no toDate)
ConvertCreatedAt(c) == c

\* snapshot.forEach: the documents of the collection in identifier order,
\* each as { id: doc.id, ...data, createdAt }
SnapshotDocs(store) ==
    LET present == SelectSeq(IdOrder, LAMBDA k : k \in DOMAIN store)
    IN  [i \in DOMAIN present |->
            [store[present[i]] EXCEPT !.createdAt = ConvertCreatedAt(@)]]

\* a filter that stops removing after the first record of the owner
WithoutOwnerFirstOnly(s, userId) ==
    LET hits == {i \in DOMAIN s : s[i].userId = userId}
    IN  IF hits = {} THEN s
        ELSE LET first == CHOOSE i \in hits : \A j \in hits : i <= j
             IN  SubSeq(s, 1, first - 1) \o SubSeq(s, first + 1, Len(s))

\* prev.filter(exp => exp.userId !== userId)
WithoutOwner(s, userId) == SelectSeq(s, LAMBDA e : e.userId # userId)

\* a removal that cuts the list at the first record with the identifier
WithoutIdAndRest(s, id) ==
    LET hits == {i \in DOMAIN s : s[i].id = id}
    IN  IF hits = {} THEN s
        ELSE SubSeq(s, 1, (CHOOSE i \in hits : \A j \in hits : i <= j) - 1)

\* prev.filter(exp => exp.id !== id)
WithoutId(s, id) == SelectSeq(s, LAMBDA e : e.id # id)

\* expenses.filter(e => e.userId === userId)
getExpensesByUser(s, userId) == SelectSeq(s, LAMBDA e : e.userId = userId)

\* the documents matched by where("userId", "==", userId)
QueryByOwner(store, userId) == {k \in DOMAIN store : store[k].userId = userId}

\* a cascade that deletes document by document and stops after the first
DeleteFirstRef(store, refs) ==
    IF refs = {} THEN store
    ELSE LET k == CHOOSE x \in refs : TRUE
         IN  [x \in DOMAIN store \ {k} |-> store[x]]

\* batch.delete(ref) for every ref, then batch.commit(): one atomic write
BatchDelete(store, refs) == [k \in DOMAIN store \ refs |-> store[k]]

\* addDoc(collection(db, 'expenses'), data): a put under an identifier the
\* store generates whenever the collection has one to spare
SetDocAutoId(store, k, data) ==
    LET free == {x \in Ids : x \notin DOMAIN store}
        key == IF free = {} THEN k ELSE CHOOSE x \in free : TRUE
    IN  [x \in DOMAIN store \cup {key} |-> IF x = key THEN data ELSE store[x]]

\* setDoc(doc(db, 'expenses', id), data)
SetDoc(store, k, data) == [x \in DOMAIN store \cup {k} |-> IF x = k THEN data ELSE store[x]]

\* deleteDoc(doc(db, 'expenses', id))
DeleteDoc(store, k) == [x \in DOMAIN store \ {k} |-> store[x]]

\* updateDoc(doc(db, 'expenses', id), patch) on an existing document
UpdateDoc(store, k, patch) == [store EXCEPT ![k] = MergeFields(@, patch)]

(***************************************************************************)
(* Inputs the operations are exercised with.                               *)
(***************************************************************************)
\* a field that a partial record does not name
Omit == "<omitted>"
OmitTotal == 0 - 1

\* Partial<Expense>: the fields that are not omitted, with their values
MkPatch(u, c, s, n, t) ==
    [f \in {g \in {"userId", "createdAt", "status", "notes", "total"} :
              \/ g = "userId" /\ u # Omit
              \/ g = "createdAt" /\ c # Omit
              \/ g = "status" /\ s # Omit
              \/ g = "notes" /\ n # Omit
              \/ g = "total" /\ t # OmitTotal} |->
        CASE f = "userId" -> u
          [] f = "createdAt" -> c
          [] f = "status" -> s
          [] f = "notes" -> n
          [] f = "total" -> t]

\* partial records naming the owner and the creation time
OrderPatches ==
    {MkPatch(u, c, Omit, Omit, OmitTotal) :
        u \in Owners \cup {Omit}, c \in Times \cup {Omit}}

\* partial records naming status, notes and total
FieldNotes == {"", "missing receipt"}
FieldPatches ==
    {MkPatch(Omit, Omit, s, n, t) :
        s \in {"Approved", Omit}, n \in FieldNotes \cup {Omit},
        t \in {50, OmitTotal}}

\* the records handed to addExpense (AddExpense.handleSubmit builds them with
\* status Submitted; identifier, owner and creation time are the caller's)
NewExpenses ==
    [id : Ids, userId : Owners, createdAt : Times,
     status : {"Submitted"}, notes : {""}, total : {10}]

\* the same, of one owner and one creation time
FieldExpenses == {e \in NewExpenses : e.userId = "u1" /\ e.createdAt = T1}

\* MOCK_EXPENSES of mockData.ts, the seed of a first run
MOCK_EXPENSES ==
    << [id |-> "e1", userId |-> "u1", createdAt |-> T1,
        status |-> "Submitted", notes |-> "", total |-> 10] >>

\* the value JSON.parse yields for a string that holds an object, not an array
NotAnArray == << [object |-> "[object Object]"] >>

\* Array.isArray
IsArray(v) == v # NotAnArray

\* value.length > 0, which is false of a value without a length
NonEmpty(v) == IsArray(v) /\ Len(v) > 0

\* parseFloat(e.target.value) of a number input that was cleared
NaN == 0 - 2

\* what JSON.parse reads where JSON.stringify wrote a NaN
JsonNull == 0 - 3

\* JSON.parse(JSON.stringify(e)) of one record: strings and finite numbers
\* come back as they were, a NaN comes back as null
JsonRecord(e) ==
    [f \in DOMAIN e |-> IF f = "total" /\ e[f] = NaN THEN JsonNull ELSE e[f]]

\* JSON.parse(JSON.stringify(s)) of a collection
Json(s) == IF IsArray(s) THEN [i \in DOMAIN s |-> JsonRecord(s[i])] ELSE s

\* contents of a local-storage key: absent, or a string that JSON.parse
\* rejects, or parses to a non-array, or parses to the array in data
Absent == [kind |-> "absent", data |-> <<>>]
Corrupt == [kind |-> "corrupt", data |-> <<>>]
NonArray == [kind |-> "object", data |-> NotAnArray]
Stored(s) == [kind |-> IF IsArray(s) THEN "array" ELSE "object", data |-> s]

\* an expense of s carries a receipt image
HasImages(s) ==
    /\ IsArray(s)
    /\ \E i \in DOMAIN s : "imageUrl" \in DOMAIN s[i] /\ s[i].imageUrl # ""

\* expenses.map(e => ({ ...e, imageUrl: '' }))
StripImages(s) ==
    [i \in DOMAIN s |-> [f \in DOMAIN s[i] \cup {"imageUrl"} |->
                            IF f = "imageUrl" THEN "" ELSE s[i][f]]]

(***************************************************************************)
(* Values of the user repository.                                          *)
(***************************************************************************)
\* String.prototype.toLowerCase, on the addresses in use
ToLowerCase(s) ==
    CASE s = "ALICE@X.COM" -> "alice@x.com"
      [] s = "ADMIN@X.COM" -> "admin@x.com"
      [] OTHER -> s

\* encodeURIComponent, on the display names in use
EncodeURIComponent(name) ==
    CASE name = "Alice B" -> "Alice%20B"
      [] OTHER -> name

\* the avatar reference signup generates from the display name
AvatarUrl(name) ==
    "https://ui-avatars.com/api/?name=" \o EncodeURIComponent(name)
        \o "&background=random&color=fff&background=2563eb"

\* `u-${Date.now()}`
UserId(t) == "u-" \o ToString(t)

\* new Date().toISOString(), t milliseconds after the first read of the clock
ToISOString(t) == "2024-01-01T00:00:00.00" \o ToString(t) \o "Z"

\* a user without the optional pendingUpdates property (absent, undefined or null)
NoPending == [name |-> Undefined, email |-> Undefined, date |-> Undefined]

\* user === null
NoUser ==
    [id |-> "", name |-> "", email |-> "", password |-> "", role |-> "",
     avatar |-> "", pendingUpdates |-> NoPending]

\* const newUser: User = { id, name, email, password, role: SALES, avatar }
NewUser(name, email, password, t) ==
    [id |-> UserId(t), name |-> name, email |-> email, password |-> password,
     role |-> "Sales", avatar |-> AvatarUrl(name), pendingUpdates |-> NoPending]

\* MOCK_USERS of mockData.ts, the seed of a first run
MOCK_USERS ==
    << [id |-> "u1", name |-> "Admin", email |-> "admin@x.com",
        password |-> "admin", role |-> "Admin", avatar |-> "",
        pendingUpdates |-> NoPending] >>

\* document identifiers of 'users', in the order the store iterates them
UserIdOrder == [i \in 1..MaxNow |-> UserId(i)] \o <<"u1">>

\* snapshot.forEach(doc => usersData.push(doc.data()))
SnapshotUsers(store) ==
    LET present == SelectSeq(UserIdOrder, LAMBDA k : k \in DOMAIN store)
    IN  [i \in DOMAIN present |-> store[present[i]]]

\* the first element of users at one of the positions hits, or none
FirstAt(users, hits) ==
    IF hits = {} THEN NoUser
    ELSE users[CHOOSE i \in hits : \A j \in hits : i <= j]

\* a lookup that compares the addresses as written
FindByEmailExact(users, email) ==
    FirstAt(users, {i \in DOMAIN users : users[i].email = email})

\* allUsers.find(u => u.email.toLowerCase() === email.toLowerCase())
FindByEmail(users, email) ==
    FirstAt(users, {i \in DOMAIN users :
                       ToLowerCase(users[i].email) = ToLowerCase(email)})

\* a lookup by address alone
FindByCredentialsAnyPassword(users, email, password) ==
    FirstAt(users, {i \in DOMAIN users :
                       ToLowerCase(users[i].email) = ToLowerCase(email)})

\* allUsers.find(u => u.email.toLowerCase() === email.toLowerCase()
\*                    && u.password === password)
FindByCredentials(users, email, password) ==
    FirstAt(users, {i \in DOMAIN users :
                       /\ ToLowerCase(users[i].email) = ToLowerCase(email)
                       /\ users[i].password = password})

\* allUsers.find(u => u.id === userId)
FindById(users, userId) ==
    FirstAt(users, {i \in DOMAIN users : users[i].id = userId})

\* the session effect: the stored identifier selects the session's user
SessionEffect(users, storedUserId, current) ==
    IF storedUserId # "" /\ NonEmpty(users) /\ FindById(users, storedUserId) # NoUser
    THEN FindById(users, storedUserId)
    ELSE current

\* a map that merges the fields into every account
MapEveryUser(users, userId, fields) ==
    [i \in DOMAIN users |-> MergeFields(users[i], fields)]

\* prev.map(u => u.id === userId ? { ...u, ...fields } : u)
MapUser(users, userId, fields) ==
    [i \in DOMAIN users |->
        IF users[i].id = userId THEN MergeFields(users[i], fields) ELSE users[i]]

\* a request that also writes the proposed name to the live field
PendingUpdateAndName(name, email, t) ==
    [name |-> name,
     pendingUpdates |-> [name |-> name, email |-> email, date |-> ToISOString(t)]]

\* { pendingUpdates: { name, email, date: new Date().toISOString() } }
PendingUpdate(name, email, t) ==
    [pendingUpdates |-> [name |-> name, email |-> email, date |-> ToISOString(t)]]

\* an approval that copies the pending name and forgets the pending email
ResolvedNameOnly(u, approve) ==
    IF approve
    THEN [u EXCEPT !.name = u.pendingUpdates.name, !.pendingUpdates = NoPending]
    ELSE [u EXCEPT !.pendingUpdates = NoPending]

\* resolveProfileUpdate on one record: the pending values applied to the live
\* fields when approved, and the pendingUpdates property removed
Resolved(u, approve) ==
    IF approve
    THEN [u EXCEPT !.name = u.pendingUpdates.name,
                   !.email = u.pendingUpdates.email,
                   !.pendingUpdates = NoPending]
    ELSE [u EXCEPT !.pendingUpdates = NoPending]

\* prev.filter(u => u.id !== userId)
WithoutUser(users, userId) == SelectSeq(users, LAMBDA u : u.id # userId)

\* loadFromLocal of AuthProvider: the parsed value, whatever it is
loadUsersFromLocal(saved) ==
    IF saved.kind = "absent" \/ saved.kind = "corrupt" THEN MOCK_USERS
    ELSE saved.data

(***************************************************************************)
(* State.                                                                  *)
(***************************************************************************)
VARIABLES
    db,                  \* whether services/firebase exports a store handle
    quota,               \* local storage: "free", "tight" (no room for images) or "full"
    crashed,             \* an exception left an effect: the component tree is gone
    deleteUserCall,      \* confirmDelete: the user whose deleteDoc is in flight, or ""
    tornDown,            \* the providers have been unmounted and their cleanups run
    selectedExpense,     \* SalesHome: selectedExpense, the record of the open detail
    userToDelete,        \* UserManagement: userToDelete, the account of the open modal
    peer,                \* another client of the store: what it was last delivered
    fallback,            \* the collection holds an account the store refused to take
    mounted,             \* ExpenseProvider: the mount effects have run
    useCloud,            \* ExpenseProvider: useCloud
    expenses,            \* ExpenseProvider: expenses
    expensesStore,       \* the remote collection 'expenses': id -> data
    expensesNotify,      \* a snapshot of 'expenses' is due to the listener
    batch,               \* deleteExpensesByUserId between getDocs and commit
    track_expense_data,  \* localStorage['track_expense_data']
    authMounted,         \* AuthProvider: the mount effects have run
    authUseCloud,        \* AuthProvider: useCloud
    allUsers,            \* AuthProvider: allUsers
    user,                \* AuthProvider: user, the session
    isLoading,           \* AuthProvider: isLoading
    usersStore,          \* the remote collection 'users': id -> data
    usersNotify,         \* a snapshot of 'users' is due to the listener
    track_expense_users, \* localStorage['track_expense_users']
    billboard_user_id,   \* localStorage['billboard_user_id'], "" when absent
    now,                 \* the last value read from the clock
    lastOp,              \* the operation that produced the state
    lastInput            \* the inputs of that operation, where recorded

expVars == <<mounted, useCloud, expenses, expensesStore, expensesNotify,
             batch, track_expense_data>>
authVars == <<authMounted, authUseCloud, allUsers, user, isLoading, usersStore,
              usersNotify, track_expense_users, billboard_user_id, now>>
\* the page variables an operation of the expense repository cannot touch
restVars == <<tornDown, userToDelete, peer, fallback>>
pageVars == <<restVars, selectedExpense>>
vars == <<db, quota, crashed, deleteUserCall, pageVars, expVars, authVars, lastOp, lastInput>>

NoBatch == [phase |-> "idle", userId |-> "", refs |-> {}]

\* useState<Expense | null>(null)
NoExpense == [id |-> ""]

\* a client that has been delivered nothing yet
NoPeer == [expensesSeen |-> <<>>, expenses |-> <<>>, usersSeen |-> <<>>, allUsers |-> <<>>]

\* the pages and the other client before anything happens
PageInit ==
    /\ tornDown = FALSE
    /\ selectedExpense = NoExpense
    /\ userToDelete = NoUser
    /\ peer = NoPeer
    /\ fallback = FALSE
\* n: the records or documents the operation wrote or removed
\* err: the exception or rejection that left the operation, "" when none did
Op(name, arg, n) == [op |-> name, arg |-> arg, n |-> n, err |-> ""]

\* an operation that wrote nothing and let err reach its caller
Escaped(name, arg, err) == [op |-> name, arg |-> arg, n |-> 0, err |-> err]

\* localStorage.setItem(key, JSON.stringify(s)) does not exceed the quota
Fits(s) == quota = "free" \/ (quota = "tight" /\ ~HasImages(s))

\* the records of s with identifier id
CountId(s, id) == Cardinality({i \in DOMAIN s : s[i].id = id})

\* the records of s owned by userId
CountOwner(s, userId) == Cardinality({i \in DOMAIN s : s[i].userId = userId})

\* the save effect: localStorage.setItem('track_expense_data', JSON.stringify(expenses))
\* (a setItem that throws is caught and logged, and the key keeps its value)
\* setItem over the contents prev of the key: a setItem that throws leaves them
SaveOver(prev, s) == IF Fits(s) THEN Stored(Json(s)) ELSE prev

SaveExpenses(s) == SaveOver(track_expense_data, s)

\* loadFromLocal
loadFromLocal(saved) ==
    IF saved.kind = "array" THEN saved.data ELSE MOCK_EXPENSES

\* ExpenseProvider before its mount effects, over the persisted snapshots saved
ExpenseInit(saved) ==
    /\ mounted = FALSE
    /\ useCloud = FALSE
    /\ expenses = <<>>
    /\ expensesStore = <<>>
    /\ expensesNotify = FALSE
    /\ batch = NoBatch
    /\ track_expense_data \in saved

\* the accounts earlier sessions left in the remote collection
EarlierUsers == [k \in {"u1"} |-> MOCK_USERS[1]]

\* AuthProvider before its mount effects, over the remote collections stores,
\* the persisted snapshots saved and the persisted session identifiers sessions
AuthInit(stores, saved, sessions) ==
    /\ authMounted = FALSE
    /\ authUseCloud = FALSE
    /\ allUsers = <<>>
    /\ user = NoUser
    /\ isLoading = TRUE
    /\ usersStore \in stores
    /\ usersNotify = FALSE
    /\ track_expense_users \in saved
    /\ billboard_user_id \in sessions
    /\ now = 0

Init ==
    /\ db \in BOOLEAN
    /\ quota = "free"
    /\ crashed = FALSE
    /\ deleteUserCall = ""
    /\ PageInit
    /\ ExpenseInit({Absent, Corrupt, NonArray, Stored(<<>>)})
    /\ AuthInit({<<>>}, {Absent}, {""})
    /\ lastOp = Op("init", "", 0)
    /\ lastInput = <<>>

\* the two mount effects of ExpenseProvider, in order, and the re-render they cause
Mount ==
    /\ ~mounted /\ ~crashed /\ ~tornDown
    /\ mounted' = TRUE
    /\ IF db
       THEN /\ useCloud' = TRUE
            /\ expensesNotify' = TRUE
            /\ expenses' = expenses
            \* the save effect of the first render still sees useCloud = false
            /\ track_expense_data' = SaveExpenses(expenses)
       ELSE /\ useCloud' = FALSE
            /\ expensesNotify' = FALSE
            /\ expenses' = loadFromLocal(track_expense_data)
            \* the save effect runs on the empty first render, then on the load
            /\ track_expense_data' = SaveOver(SaveExpenses(<<>>), expenses')
    /\ UNCHANGED <<db, quota, pageVars, deleteUserCall, crashed, expensesStore, batch, authVars>>
    /\ lastOp' = Op("mount", "", Len(expenses'))

\* a listener that nothing unsubscribes
ListeningForever == TRUE

\* the listener onSnapshot registered is subscribed until the cleanup of the
\* init effect calls unsubscribe()
Listening == ~tornDown

\* a listener that adds the documents of the snapshot to what it holds
OnSnapshotMerging ==
    /\ mounted /\ ~crashed /\ Listening /\ useCloud /\ expensesNotify
    /\ expenses' = SortByDate(SnapshotDocs(expensesStore) \o
                       SelectSeq(expenses, LAMBDA e : e.id \notin DOMAIN expensesStore))
    /\ expensesNotify' = FALSE
    /\ UNCHANGED <<db, quota, pageVars, deleteUserCall, crashed, mounted, useCloud, expensesStore, batch, track_expense_data,
                   authVars>>
    /\ lastOp' = Op("onSnapshot", "", Len(expenses'))

\* the onSnapshot callback
OnSnapshot ==
    /\ mounted /\ ~crashed /\ Listening /\ useCloud /\ expensesNotify
    /\ expenses' = SortByDate(SnapshotDocs(expensesStore))
    /\ expensesNotify' = FALSE
    /\ UNCHANGED <<db, quota, pageVars, deleteUserCall, crashed, mounted, useCloud, expensesStore, batch, track_expense_data,
                   authVars>>
    /\ lastOp' = Op("onSnapshot", "", Len(expenses'))

\* local mode: setExpenses(f), then the save effect
SetExpensesLocal(new) ==
    /\ expenses' = new
    /\ track_expense_data' = SaveExpenses(new)
    /\ UNCHANGED <<db, quota, restVars, deleteUserCall, crashed, mounted, useCloud, expensesStore, expensesNotify, batch,
                   authVars>>

\* a write that also puts its result in the collection of the writer
WriteStoreOptimistic(new) ==
    /\ expensesStore' = new
    /\ expensesNotify' = TRUE
    /\ expenses' = SortByDate(SnapshotDocs(new))
    /\ UNCHANGED <<db, quota, restVars, deleteUserCall, crashed, mounted, useCloud, batch, track_expense_data,
                   authVars>>

\* cloud mode: a write to the remote collection, notified to the listeners
WriteStore(new) ==
    /\ expensesStore' = new
    /\ expensesNotify' = TRUE
    /\ UNCHANGED <<db, quota, restVars, deleteUserCall, crashed, mounted, useCloud, expenses, batch, track_expense_data,
                   authVars>>

\* cloud mode: a rejected write
WriteFails ==
    UNCHANGED <<db, quota, restVars, deleteUserCall, crashed, mounted, useCloud, expenses, expensesStore, expensesNotify,
                batch, track_expense_data, authVars>>

addExpense(expense) ==
    /\ mounted /\ ~crashed /\ ~tornDown
    /\ UNCHANGED selectedExpense
    /\ IF useCloud /\ db
       THEN \/ /\ WriteStore(SetDoc(expensesStore, expense.id, expense))
               /\ lastOp' = Op("addExpense", expense.id, 1)
            \/ /\ WriteFails
               /\ lastOp' = Op("addExpense", expense.id, 0)
       ELSE /\ Len(expenses) < MaxExpenses
            /\ SetExpensesLocal(<<expense>> \o expenses)
            /\ lastOp' = Op("addExpense", expense.id, 1)

updateStatus(id, status, notes) ==
    /\ mounted /\ ~crashed /\ ~tornDown
    /\ UNCHANGED selectedExpense
    /\ IF useCloud /\ db
       THEN IF id \in DOMAIN expensesStore
            THEN \/ /\ WriteStore(UpdateDoc(expensesStore, id, StatusUpdateData(status, notes)))
                    /\ lastOp' = Op("updateStatus", notes, 1)
                 \/ /\ WriteFails
                    /\ lastOp' = Escaped("updateStatus", notes, "rejected")
            \* updateDoc rejects for a document that does not exist
            ELSE /\ WriteFails
                 /\ lastOp' = Escaped("updateStatus", notes, "not-found")
       ELSE /\ SetExpensesLocal([i \in DOMAIN expenses |->
                    IF expenses[i].id = id
                    THEN WithStatus(expenses[i], status, notes)
                    ELSE expenses[i]])
            /\ lastOp' = Op("updateStatus", notes, CountId(expenses, id))

deleteExpense(id) ==
    /\ mounted /\ ~crashed /\ ~tornDown
    /\ UNCHANGED selectedExpense
    /\ IF useCloud /\ db
       THEN \/ /\ WriteStore(DeleteDoc(expensesStore, id))
               /\ lastOp' = Op("deleteExpense", id, IF id \in DOMAIN expensesStore THEN 1 ELSE 0)
            \/ /\ WriteFails
               /\ lastOp' = Escaped("deleteExpense", id, "rejected")
       ELSE /\ SetExpensesLocal(WithoutId(expenses, id))
            /\ lastOp' = Op("deleteExpense", id, CountId(expenses, id))

\* editExpense, as a call of a handler that goes on after it
editExpenseCall(id, updatedExpense) ==
    /\ mounted /\ ~crashed /\ ~tornDown
    /\ IF useCloud /\ db
       THEN IF id \in DOMAIN expensesStore
            THEN \/ /\ WriteStore(UpdateDoc(expensesStore, id, updatedExpense))
                    /\ lastOp' = Op("editExpense", id, 1)
                 \/ /\ WriteFails
                    /\ lastOp' = Escaped("editExpense", id, "rejected")
            \* updateDoc rejects for a document that does not exist
            ELSE /\ WriteFails
                 /\ lastOp' = Escaped("editExpense", id, "not-found")
       ELSE /\ SetExpensesLocal([i \in DOMAIN expenses |->
                    IF expenses[i].id = id
                    THEN MergeFields(expenses[i], updatedExpense)
                    ELSE expenses[i]])
            /\ lastOp' = Op("editExpense", id, CountId(expenses, id))

editExpense(id, updatedExpense) ==
    /\ editExpenseCall(id, updatedExpense)
    /\ UNCHANGED selectedExpense

\* deleteExpensesByUserId in local mode
deleteExpensesByUserId(userId) ==
    /\ mounted /\ ~crashed /\ ~tornDown
    /\ UNCHANGED selectedExpense
    /\ ~(useCloud /\ db)
    /\ SetExpensesLocal(WithoutOwner(expenses, userId))
    /\ lastOp' = Op("deleteExpensesByUserId", userId, CountOwner(expenses, userId))

\* deleteExpensesByUserId in cloud mode, up to the answer of getDocs
deleteByUserQuery(userId) ==
    /\ mounted /\ ~crashed /\ ~tornDown
    /\ useCloud /\ db
    /\ batch.phase = "idle"
    /\ batch' = [phase |-> "queried", userId |-> userId,
                 refs |-> QueryByOwner(expensesStore, userId)]
    /\ UNCHANGED <<db, quota, pageVars, deleteUserCall, crashed, mounted, useCloud, expenses, expensesStore, expensesNotify,
                   track_expense_data, authVars>>
    /\ lastOp' = Op("deleteByUserQuery", userId, 0)

\* deleteExpensesByUserId in cloud mode: batch.commit()
deleteByUserCommit ==
    /\ batch.phase = "queried" /\ ~crashed /\ ~tornDown
    /\ expensesStore' = BatchDelete(expensesStore, batch.refs)
    /\ expensesNotify' = TRUE
    /\ batch' = NoBatch
    /\ UNCHANGED <<db, quota, pageVars, deleteUserCall, crashed, mounted, useCloud, expenses, track_expense_data, authVars>>
    /\ lastOp' = Op("deleteByUserCommit", batch.userId,
                     Cardinality(batch.refs \cap DOMAIN expensesStore))

\* the client stops, or the commit is rejected, before the batch is applied
deleteByUserAbort ==
    /\ batch.phase = "queried" /\ ~crashed /\ ~tornDown
    /\ batch' = NoBatch
    /\ UNCHANGED <<db, quota, pageVars, deleteUserCall, crashed, mounted, useCloud, expenses, expensesStore, expensesNotify,
                   track_expense_data, authVars>>
    /\ \E err \in {"", "rejected"} :
          lastOp' = Escaped("deleteByUserAbort", batch.userId, err)

\* the expense repository, exercised on owners and creation times
Next ==
    /\ \/ Mount
       \/ OnSnapshot
       \/ \E e \in NewExpenses : addExpense(e)
       \/ \E id \in Ids : deleteExpense(id)
       \/ \E id \in Ids, p \in OrderPatches : editExpense(id, p)
       \/ \E u \in Owners : deleteExpensesByUserId(u)
       \/ \E u \in Owners : deleteByUserQuery(u)
       \/ deleteByUserCommit
       \/ deleteByUserAbort
    /\ lastInput' = <<>>

Spec == Init /\ [][Next]_vars

\* the expense repository, exercised by create alone
NextCreate ==
    /\ \/ Mount
       \/ OnSnapshot
       \/ \E e \in NewExpenses : addExpense(e)
    /\ lastInput' = <<>>

SpecCreate == Init /\ [][NextCreate]_vars

\* no write of this client awaits redelivery
Redelivered == ~(useCloud /\ expensesNotify)

\* the expense repository, exercised on status, notes and total by a client
\* that issues a write once the previous one has been redelivered
NextFields ==
    \/ /\ \/ Mount
          \/ OnSnapshot
          \/ \E e \in FieldExpenses : Redelivered /\ addExpense(e)
          \/ \E id \in Ids, s \in Statuses, n \in FieldNotes \cup {Undefined} :
                Redelivered /\ updateStatus(id, s, n)
          \/ \E id \in Ids : Redelivered /\ deleteExpense(id)
       /\ lastInput' = <<>>
    \/ \E id \in Ids, p \in FieldPatches :
          Redelivered /\ editExpense(id, p) /\ lastInput' = p

SpecFields == Init /\ [][NextFields]_vars

\* expenses that carry a receipt image, as AddExpense builds them
ImageExpenses ==
    [id : Ids, userId : {"u1"}, createdAt : {T1}, status : {"Submitted"},
     notes : {""}, total : {10}, imageUrl : {"", "data:image/png;base64"}]

\* a local-mode session over a local storage with any amount of room left
InitQuota ==
    /\ db = FALSE
    /\ quota \in {"free", "tight", "full"}
    /\ crashed = FALSE
    /\ deleteUserCall = ""
    /\ PageInit
    /\ ExpenseInit({Absent, Stored(<<>>)}
                   \cup {Stored(<<e>>) : e \in {x \in ImageExpenses : x.id = "e1"}})
    /\ AuthInit({<<>>}, {Absent}, {""})
    /\ lastOp = Op("init", "", 0)
    /\ lastInput = <<>>

\* the expense repository, exercised on records with images
NextQuota ==
    /\ \/ Mount
       \/ \E e \in ImageExpenses : addExpense(e)
       \/ \E id \in Ids : deleteExpense(id)
    /\ lastInput' = <<>>

SpecQuota == InitQuota /\ [][NextQuota]_vars

(***************************************************************************)
(* AuthProvider.                                                           *)
(***************************************************************************)
\* the save effect: localStorage.setItem('track_expense_users', JSON.stringify(allUsers))
\* (nothing catches a setItem that throws: the key keeps its value)
SaveUsers(users) == IF Fits(users) THEN Stored(Json(users)) ELSE track_expense_users

\* the record of an operation whose save effect ran on users
AfterSave(op, users) ==
    IF Fits(users) THEN op ELSE [op EXCEPT !.err = "QuotaExceededError"]

\* the records of a collection, none when it is not an array
Count(v) == IF IsArray(v) THEN Len(v) ELSE 0

\* the two data effects and the session effect on mount, and the re-render
MountAuth ==
    /\ ~authMounted /\ ~crashed /\ ~tornDown
    /\ authMounted' = TRUE
    /\ IF db
       THEN /\ authUseCloud' = TRUE
            /\ usersNotify' = TRUE
            /\ UNCHANGED <<allUsers, isLoading, user>>
            \* the save effect of the first render still sees useCloud = false
            /\ track_expense_users' = SaveUsers(allUsers)
       ELSE /\ authUseCloud' = FALSE
            /\ usersNotify' = FALSE
            /\ allUsers' = loadUsersFromLocal(track_expense_users)
            /\ isLoading' = FALSE
            /\ track_expense_users' = SaveUsers(allUsers')
            /\ user' = SessionEffect(allUsers', billboard_user_id, user)
    /\ crashed' = ~Fits(allUsers')
    /\ UNCHANGED <<db, quota, pageVars, deleteUserCall, expVars, usersStore, billboard_user_id, now>>
    /\ lastOp' = AfterSave(Op("mountAuth", "", Count(allUsers')), allUsers')
    /\ lastInput' = <<>>

\* a listener that outlives the subscription error and, on its next
\* snapshot, puts the provider back in cloud mode
OnUsersSnapshotPromoting ==
    /\ authMounted /\ ~crashed /\ Listening /\ db
    /\ authUseCloud' = TRUE
    /\ allUsers' = SnapshotUsers(usersStore)
    /\ isLoading' = FALSE
    /\ usersNotify' = FALSE
    /\ user' = SessionEffect(allUsers', billboard_user_id, user)
    /\ UNCHANGED <<db, quota, tornDown, userToDelete, peer, selectedExpense, deleteUserCall, crashed, expVars, authMounted, usersStore,
                   track_expense_users, billboard_user_id, now>>
    /\ fallback' = FALSE
    /\ lastOp' = Op("onUsersSnapshot", "", Len(allUsers'))
    /\ lastInput' = <<>>

\* the onSnapshot callback of 'users', and the session effect
OnUsersSnapshot ==
    /\ authMounted /\ ~crashed /\ Listening /\ authUseCloud /\ usersNotify
    /\ allUsers' = SnapshotUsers(usersStore)
    /\ isLoading' = FALSE
    /\ usersNotify' = FALSE
    /\ user' = SessionEffect(allUsers', billboard_user_id, user)
    /\ UNCHANGED <<db, quota, tornDown, userToDelete, peer, selectedExpense, deleteUserCall, crashed, expVars, authMounted, authUseCloud, usersStore,
                   track_expense_users, billboard_user_id, now>>
    /\ fallback' = FALSE
    /\ lastOp' = Op("onUsersSnapshot", "", Len(allUsers'))
    /\ lastInput' = <<>>

\* the error callback of onSnapshot: fall back to local mode
OnUsersSnapshotError ==
    /\ authMounted /\ ~crashed /\ Listening /\ authUseCloud
    /\ authUseCloud' = FALSE
    /\ usersNotify' = FALSE
    /\ allUsers' = loadUsersFromLocal(track_expense_users)
    /\ isLoading' = FALSE
    /\ track_expense_users' = SaveUsers(allUsers')
    /\ user' = SessionEffect(allUsers', billboard_user_id, user)
    /\ crashed' = ~Fits(allUsers')
    /\ UNCHANGED <<db, quota, tornDown, userToDelete, peer, selectedExpense, deleteUserCall, expVars, authMounted, usersStore, billboard_user_id, now>>
    /\ fallback' = FALSE
    /\ lastOp' = AfterSave(Op("onUsersSnapshotError", "", Count(allUsers')), allUsers')
    /\ lastInput' = <<>>

\* a setAllUsers that also writes the names of the accounts on their expenses
SetAllUsersLocalSyncingNames(new) ==
    /\ allUsers' = new
    /\ track_expense_users' = SaveUsers(new)
    /\ user' = SessionEffect(new, billboard_user_id, user)
    /\ crashed' = ~Fits(new)
    /\ expenses' = [i \in DOMAIN expenses |->
                       IF FindById(new, expenses[i].userId) = NoUser THEN expenses[i]
                       ELSE [expenses[i] EXCEPT
                               !.userName = FindById(new, expenses[i].userId).name]]
    /\ UNCHANGED <<db, quota, pageVars, deleteUserCall, mounted, useCloud, expensesStore,
                   expensesNotify, batch, track_expense_data, authMounted, authUseCloud,
                   isLoading, usersStore, usersNotify, billboard_user_id>>

\* local mode: setAllUsers(f), then the save effect and the session effect
SetAllUsersLocal(new) ==
    /\ allUsers' = new
    /\ track_expense_users' = SaveUsers(new)
    /\ user' = SessionEffect(new, billboard_user_id, user)
    /\ crashed' = ~Fits(new)
    /\ UNCHANGED <<db, quota, pageVars, deleteUserCall, expVars, authMounted, authUseCloud, isLoading, usersStore,
                   usersNotify, billboard_user_id>>

\* cloud mode: a write to the remote collection, notified to the listeners
WriteUsersStore(new) ==
    /\ usersStore' = new
    /\ usersNotify' = TRUE
    /\ UNCHANGED <<db, quota, pageVars, deleteUserCall, crashed, expVars, authMounted, authUseCloud, allUsers, user, isLoading,
                   track_expense_users, billboard_user_id>>

\* a call that changes nothing: a rejected write, an early return
NoUserChange ==
    UNCHANGED <<db, quota, pageVars, deleteUserCall, crashed, expVars, authMounted, authUseCloud, allUsers, user, isLoading,
                usersStore, usersNotify, track_expense_users, billboard_user_id>>

login(email, password) ==
    LET foundUser == FindByCredentials(allUsers, email, password)
    IN  /\ authMounted /\ ~crashed /\ ~tornDown
        /\ lastInput' = [password |-> password]
        /\ UNCHANGED <<db, quota, pageVars, deleteUserCall, crashed, expVars, authMounted, authUseCloud, allUsers, isLoading,
                       usersStore, usersNotify, track_expense_users, now>>
        /\ IF ~IsArray(allUsers)
           \* allUsers.find is not a function
           THEN /\ UNCHANGED <<user, billboard_user_id>>
                /\ lastOp' = Escaped("login", email, "TypeError")
           ELSE /\ IF foundUser # NoUser
                   THEN /\ user' = foundUser
                        /\ billboard_user_id' = foundUser.id
                   ELSE UNCHANGED <<user, billboard_user_id>>
                /\ lastOp' = Op("login", email, IF foundUser # NoUser THEN 1 ELSE 0)

logout ==
    /\ authMounted /\ ~crashed /\ ~tornDown
    /\ user' = NoUser
    /\ billboard_user_id' = ""
    /\ UNCHANGED <<db, quota, pageVars, deleteUserCall, crashed, expVars, authMounted, authUseCloud, allUsers, isLoading,
                   usersStore, usersNotify, track_expense_users, now>>
    /\ lastOp' = Op("logout", "", 0)
    /\ lastInput' = <<>>

\* signup; every call that creates an account reads a later clock value
signup(name, email, password) ==
    /\ authMounted /\ ~crashed /\ ~tornDown
    /\ lastInput' = <<>>
    /\ IF FindByEmail(allUsers, email) # NoUser
       THEN /\ NoUserChange
            /\ UNCHANGED now
            /\ lastOp' = Op("signup", email, 0)
       ELSE \E t \in (now + 1)..MaxNow :
              LET newUser == NewUser(name, email, password, t)
              IN  /\ now' = t
                  /\ billboard_user_id' = newUser.id
                  /\ IF authUseCloud
                     THEN \/ /\ usersStore' = SetDoc(usersStore, newUser.id, newUser)
                             /\ usersNotify' = TRUE
                             /\ user' = newUser
                             /\ lastOp' = Op("signup", email, 1)
                             /\ UNCHANGED <<allUsers, track_expense_users, crashed,
                                            fallback>>
                          \* the write is rejected: the fallback of the catch
                          \/ /\ allUsers' = Append(allUsers, newUser)
                             /\ user' = SessionEffect(allUsers', newUser.id, newUser)
                             /\ lastOp' = Op("signup", email, 1)
                             /\ fallback' = TRUE
                             /\ UNCHANGED <<usersStore, usersNotify, track_expense_users,
                                            crashed>>
                     ELSE /\ allUsers' = Append(allUsers, newUser)
                          /\ track_expense_users' = SaveUsers(allUsers')
                          /\ user' = SessionEffect(allUsers', newUser.id, newUser)
                          /\ crashed' = ~Fits(allUsers')
                          /\ lastOp' = AfterSave(Op("signup", email, 1), allUsers')
                          /\ UNCHANGED <<usersStore, usersNotify, fallback>>
                  /\ UNCHANGED <<db, quota, tornDown, userToDelete, peer, selectedExpense, deleteUserCall, expVars, authMounted,
                                authUseCloud, isLoading>>

\* updateUserRole, updateUserAvatar, updateUserPassword: one field of one user
UpdateUserField(name, userId, fields) ==
    /\ authMounted /\ ~crashed /\ ~tornDown
    /\ UNCHANGED now
    /\ lastInput' = <<>>
    /\ IF authUseCloud
       THEN IF userId \in DOMAIN usersStore
            THEN \/ /\ WriteUsersStore(UpdateDoc(usersStore, userId, fields))
                    /\ lastOp' = Op(name, userId, 1)
                 \/ /\ NoUserChange
                    /\ lastOp' = Op(name, userId, 0)
            ELSE /\ NoUserChange
                 /\ lastOp' = Op(name, userId, 0)
       ELSE /\ SetAllUsersLocal(MapUser(allUsers, userId, fields))
            /\ lastOp' = AfterSave(Op(name, userId, 1), allUsers')

\* a role change that rewrites the record without its pending sub-record
updateUserRoleDroppingPending(userId, newRole) ==
    UpdateUserField("updateUserRole", userId,
                    [role |-> newRole, pendingUpdates |-> NoPending])

updateUserRole(userId, newRole) ==
    UpdateUserField("updateUserRole", userId, [role |-> newRole])

updateUserAvatar(userId, avatarUrl) ==
    UpdateUserField("updateUserAvatar", userId, [avatar |-> avatarUrl])

updateUserPassword(userId, password) ==
    UpdateUserField("updateUserPassword", userId, [password |-> password])

requestProfileUpdate(userId, name, email) ==
    /\ authMounted /\ ~crashed /\ ~tornDown
    /\ \E t \in now..MaxNow :
         LET updateData == PendingUpdate(name, email, t)
         IN  /\ now' = t
             /\ lastInput' = updateData.pendingUpdates
             /\ IF authUseCloud
                THEN IF userId \in DOMAIN usersStore
                     THEN \/ /\ WriteUsersStore(UpdateDoc(usersStore, userId, updateData))
                             /\ lastOp' = Op("requestProfileUpdate", userId, 1)
                          \* the write is rejected: nothing catches it
                          \/ /\ NoUserChange
                             /\ lastOp' = Escaped("requestProfileUpdate", userId,
                                                  "rejected")
                     ELSE /\ NoUserChange
                          /\ lastOp' = Escaped("requestProfileUpdate", userId,
                                               "not-found")
                ELSE /\ SetAllUsersLocal(MapUser(allUsers, userId, updateData))
                     /\ lastOp' = AfterSave(Op("requestProfileUpdate", userId, 1),
                                            allUsers')

resolveProfileUpdate(userId, approve) ==
    LET userToUpdate == FindById(allUsers, userId)
    IN  /\ authMounted /\ ~crashed /\ ~tornDown
        /\ UNCHANGED now
        /\ lastInput' = [approve |-> approve]
        /\ IF userToUpdate = NoUser \/ userToUpdate.pendingUpdates = NoPending
           THEN /\ NoUserChange
                /\ lastOp' = Op("resolveProfileUpdate", userId, 0)
           ELSE IF authUseCloud
                THEN \/ /\ WriteUsersStore(SetDoc(usersStore, userId,
                                                   Resolved(userToUpdate, approve)))
                        /\ lastOp' = Op("resolveProfileUpdate", userId, 1)
                     \* the write is rejected: nothing catches it
                     \/ /\ NoUserChange
                        /\ lastOp' = Escaped("resolveProfileUpdate", userId, "rejected")
                ELSE /\ SetAllUsersLocal([i \in DOMAIN allUsers |->
                            IF allUsers[i].id = userId
                            THEN Resolved(allUsers[i], approve)
                            ELSE allUsers[i]])
                     /\ lastOp' = AfterSave(Op("resolveProfileUpdate", userId, 1),
                                            allUsers')

\* a removal that leaves the session of the removed account in place
deleteUserKeepingSession(userId) ==
    /\ authMounted /\ ~crashed /\ ~tornDown
    /\ UNCHANGED now
    \* the session the call sees: user && user.id
    /\ lastInput' = [session |-> user.id]
    /\ IF authUseCloud
       THEN \/ /\ usersStore' = DeleteDoc(usersStore, userId)
               /\ usersNotify' = TRUE
               /\ UNCHANGED <<user, billboard_user_id>>
               /\ UNCHANGED <<db, quota, pageVars, deleteUserCall, crashed, expVars, authMounted, authUseCloud, allUsers,
                              isLoading, track_expense_users>>
               /\ lastOp' = Op("deleteUser", userId, 1)
            \* the write is rejected and the rejection leaves the function
            \/ /\ NoUserChange
               /\ lastOp' = Escaped("deleteUser", userId, "rejected")
       ELSE /\ allUsers' = WithoutUser(allUsers, userId)
            /\ track_expense_users' = SaveUsers(allUsers')
            /\ user' = SessionEffect(allUsers', billboard_user_id, user)
            /\ UNCHANGED billboard_user_id
            /\ crashed' = ~Fits(allUsers')
            /\ UNCHANGED <<db, quota, pageVars, deleteUserCall, expVars, authMounted, authUseCloud, isLoading,
                           usersStore, usersNotify>>
            /\ lastOp' = AfterSave(Op("deleteUser", userId, 1), allUsers')

deleteUser(userId) ==
    /\ authMounted /\ ~crashed /\ ~tornDown
    /\ UNCHANGED now
    \* the session the call sees: user && user.id
    /\ lastInput' = [session |-> user.id]
    /\ IF authUseCloud
       THEN \/ /\ usersStore' = DeleteDoc(usersStore, userId)
               /\ usersNotify' = TRUE
               /\ IF user # NoUser /\ user.id = userId
                  THEN user' = NoUser /\ billboard_user_id' = ""
                  ELSE UNCHANGED <<user, billboard_user_id>>
               /\ UNCHANGED <<db, quota, pageVars, deleteUserCall, crashed, expVars, authMounted, authUseCloud, allUsers,
                              isLoading, track_expense_users>>
               /\ lastOp' = Op("deleteUser", userId, 1)
            \* the write is rejected and the rejection leaves the function
            \/ /\ NoUserChange
               /\ lastOp' = Escaped("deleteUser", userId, "rejected")
       ELSE /\ allUsers' = WithoutUser(allUsers, userId)
            /\ track_expense_users' = SaveUsers(allUsers')
            /\ IF user # NoUser /\ user.id = userId
               THEN user' = NoUser /\ billboard_user_id' = ""
               ELSE /\ user' = SessionEffect(allUsers', billboard_user_id, user)
                    /\ UNCHANGED billboard_user_id
            /\ crashed' = ~Fits(allUsers')
            /\ UNCHANGED <<db, quota, pageVars, deleteUserCall, expVars, authMounted, authUseCloud, isLoading,
                           usersStore, usersNotify>>
            /\ lastOp' = AfterSave(Op("deleteUser", userId, 1), allUsers')

\* identifiers the user operations are called with: the seeded account and
\* the first account signup creates
UserIds == {"u1", UserId(1)}

\* the proposals handed to requestProfileUpdate
ProfileRequests == {<<"Alice B", "alice.b@x.com">>, <<"Bob", "bob@x.com">>}

\* AuthProvider over a remote collection that is empty or holds an account,
\* and a local snapshot that is absent, corrupt or an empty array
InitAuth ==
    /\ db \in BOOLEAN
    /\ quota = "free"
    /\ crashed = FALSE
    /\ deleteUserCall = ""
    /\ PageInit
    /\ ExpenseInit({Absent})
    /\ AuthInit({<<>>, EarlierUsers}, {Absent, Corrupt, Stored(<<>>)}, {"", "u1"})
    /\ lastOp = Op("init", "", 0)
    /\ lastInput = <<>>

\* the two-phase profile update
NextProfile ==
    \/ MountAuth
    \/ OnUsersSnapshot
    \/ \E id \in UserIds, r \in ProfileRequests : requestProfileUpdate(id, r[1], r[2])
    \/ \E id \in UserIds, approve \in BOOLEAN : resolveProfileUpdate(id, approve)

SpecProfile == InitAuth /\ [][NextProfile]_vars

\* the name, address and password handed to signup
Credentials ==
    {<<"Alice", "alice@x.com", "pw1">>, <<"Bob", "alice@x.com", "pw2">>,
     <<"Bob", "ALICE@X.COM", "pw2">>, <<"Admin", "ADMIN@X.COM", "admin">>}

\* AuthProvider over a remote collection that holds an account
InitPending ==
    /\ db \in BOOLEAN
    /\ quota = "free"
    /\ crashed = FALSE
    /\ deleteUserCall = ""
    /\ PageInit
    /\ ExpenseInit({Absent})
    /\ AuthInit({EarlierUsers}, {Absent}, {""})
    /\ lastOp = Op("init", "", 0)
    /\ lastInput = <<>>

\* no write to 'users' awaits redelivery to this client
UsersRedelivered == ~(authUseCloud /\ usersNotify)

\* the profile update among the other operations on an account; the single
\* field changes, login and signup are issued by a client that is up to date
NextPending ==
    \/ MountAuth
    \/ OnUsersSnapshot
    \/ requestProfileUpdate("u1", "Alice B", "alice.b@x.com")
    \/ \E approve \in BOOLEAN : resolveProfileUpdate("u1", approve)
    \/ UsersRedelivered /\ updateUserRole("u1", "Manager")
    \/ UsersRedelivered /\ updateUserAvatar("u1", "avatar.png")
    \/ UsersRedelivered /\ updateUserPassword("u1", "pw1")
    \/ \E password \in {"admin", "pw1"} :
          UsersRedelivered /\ login("ADMIN@X.COM", password)
    \/ UsersRedelivered /\ signup("Alice", "alice@x.com", "pw1")

SpecPending == InitPending /\ [][NextPending]_vars

\* sign-up and account removal, the session and the subscription
NextSignup ==
    \/ MountAuth
    \/ OnUsersSnapshot
    \/ OnUsersSnapshotError
    \/ \E c \in Credentials : signup(c[1], c[2], c[3])
    \/ logout
    \/ \E id \in UserIds : deleteUser(id)

SpecSignup == InitAuth /\ [][NextSignup]_vars

\* both providers starting over whatever an earlier session, or anything else
\* that writes the two keys, left in local storage
InitLoad ==
    /\ db \in BOOLEAN
    /\ quota = "free"
    /\ crashed = FALSE
    /\ deleteUserCall = ""
    /\ PageInit
    /\ ExpenseInit({Absent, Corrupt, NonArray, Stored(<<>>), Stored(MOCK_EXPENSES)})
    /\ AuthInit({<<>>}, {Absent, Corrupt, NonArray, Stored(<<>>), Stored(MOCK_USERS)},
                {"", "u1"})
    /\ lastOp = Op("init", "", 0)
    /\ lastInput = <<>>

\* the addresses and passwords typed in the login form
LoginInputs ==
    {<<"admin@x.com", "admin">>, <<"ADMIN@X.COM", "admin">>,
     <<"admin@x.com", "ADMIN">>, <<"alice@x.com", "pw1">>}

\* initialization of the two providers, and the session over what they loaded
NextLoad ==
    \/ (Mount \/ OnSnapshot) /\ lastInput' = <<>>
    \/ MountAuth
    \/ OnUsersSnapshot
    \/ OnUsersSnapshotError
    \/ \E c \in LoginInputs : login(c[1], c[2])
    \/ logout

SpecLoad == InitLoad /\ [][NextLoad]_vars

\* both providers, in cloud mode, over a remote collection of users that
\* holds an account
InitCloud ==
    /\ db = TRUE
    /\ quota = "free"
    /\ crashed = FALSE
    /\ deleteUserCall = ""
    /\ PageInit
    /\ ExpenseInit({Absent})
    /\ AuthInit({EarlierUsers}, {Absent}, {""})
    /\ lastOp = Op("init", "", 0)
    /\ lastInput = <<>>

\* the expense handed to addExpense by the one client of SpecCloud
CloudExpense == CHOOSE e \in FieldExpenses : e.id = "e1"

\* the repositories have delivered every write of this client back to it
Quiescent == Redelivered /\ UsersRedelivered

\* every write operation of the two repositories, issued by a client that
\* writes once its previous writes have been redelivered
NextCloud ==
    \/ /\ \/ Mount
          \/ OnSnapshot
          \/ Quiescent /\ addExpense(CloudExpense)
          \/ Quiescent /\ updateStatus("e1", "Approved", Undefined)
          \/ Quiescent /\ editExpense("e1", MkPatch(Omit, Omit, Omit, "missing receipt",
                                                    OmitTotal))
          \/ Quiescent /\ deleteExpense("e1")
       /\ lastInput' = <<>>
    \/ MountAuth
    \/ OnUsersSnapshot
    \/ Quiescent /\ signup("Alice", "alice@x.com", "pw1")
    \/ Quiescent /\ updateUserRole("u1", "Manager")
    \/ Quiescent /\ updateUserAvatar("u1", "avatar.png")
    \/ Quiescent /\ updateUserPassword("u1", "pw1")
    \/ Quiescent /\ requestProfileUpdate("u1", "Alice B", "alice.b@x.com")
    \/ \E approve \in BOOLEAN : Quiescent /\ resolveProfileUpdate("u1", approve)
    \/ Quiescent /\ deleteUser("u1")

SpecCloud == InitCloud /\ [][NextCloud]_vars

\* both providers, with or without a handle on the remote store
InitMode ==
    /\ db \in BOOLEAN
    /\ quota = "free"
    /\ crashed = FALSE
    /\ deleteUserCall = ""
    /\ PageInit
    /\ ExpenseInit({Absent})
    /\ AuthInit({<<>>, EarlierUsers}, {Absent}, {""})
    /\ lastOp = Op("init", "", 0)
    /\ lastInput = <<>>

\* the start of the two providers, their subscriptions, the subscription
\* error and writes before and after it
NextMode ==
    \/ /\ \/ Mount
          \/ OnSnapshot
          \/ Quiescent /\ addExpense(CloudExpense)
          \/ Quiescent /\ deleteExpense("e1")
       /\ lastInput' = <<>>
    \/ MountAuth
    \/ OnUsersSnapshot
    \/ OnUsersSnapshotError
    \/ Quiescent /\ signup("Alice", "alice@x.com", "pw1")
    \/ Quiescent /\ deleteUser("u1")

SpecMode == InitMode /\ [][NextMode]_vars

\* UserManagement.confirmDelete: deleteExpensesByUserId(id) and deleteUser(id)
\* called one after the other, neither awaited. In local mode both set their
\* state in the same event; in cloud mode the first has sent getDocs and the
\* second has sent deleteDoc when the handler returns
deleteAccount(userId) ==
    /\ mounted /\ authMounted /\ ~crashed /\ ~tornDown
    /\ batch.phase = "idle" /\ deleteUserCall = ""
    /\ IF useCloud /\ db
       THEN /\ batch' = [phase |-> "queried", userId |-> userId,
                         refs |-> QueryByOwner(expensesStore, userId)]
            /\ UNCHANGED <<expenses, track_expense_data>>
       ELSE /\ expenses' = WithoutOwner(expenses, userId)
            /\ track_expense_data' = SaveExpenses(expenses')
            /\ UNCHANGED batch
    /\ IF authUseCloud
       THEN /\ deleteUserCall' = userId
            /\ UNCHANGED <<allUsers, track_expense_users, user, billboard_user_id,
                           crashed>>
       ELSE /\ allUsers' = WithoutUser(allUsers, userId)
            /\ track_expense_users' = SaveUsers(allUsers')
            /\ IF user # NoUser /\ user.id = userId
               THEN user' = NoUser /\ billboard_user_id' = ""
               ELSE /\ user' = SessionEffect(allUsers', billboard_user_id, user)
                    /\ UNCHANGED billboard_user_id
            /\ crashed' = ~Fits(allUsers')
            /\ UNCHANGED deleteUserCall
    /\ UNCHANGED <<db, quota, tornDown, peer, fallback, selectedExpense, mounted, useCloud, expensesStore, expensesNotify,
                   authMounted, authUseCloud, isLoading, usersStore, usersNotify, now>>
    /\ lastOp' = AfterSave(Op("confirmDelete", userId, 0), allUsers')
    /\ lastInput' = <<>>

\* confirmDelete of a modal opened on the account userId, which stays open
confirmDelete(userId) ==
    /\ deleteAccount(userId)
    /\ UNCHANGED userToDelete

\* the deleteDoc of the deleteUser that confirmDelete called reaches the
\* store, or is rejected; the rest of deleteUser runs after it
deleteUserSettles ==
    /\ deleteUserCall # "" /\ ~crashed /\ ~tornDown
    /\ deleteUserCall' = ""
    /\ lastInput' = <<>>
    /\ UNCHANGED <<db, quota, pageVars, crashed, expVars, authMounted, authUseCloud, allUsers,
                   isLoading, track_expense_users, now>>
    /\ \/ /\ usersStore' = DeleteDoc(usersStore, deleteUserCall)
          /\ usersNotify' = TRUE
          /\ IF user # NoUser /\ user.id = deleteUserCall
             THEN user' = NoUser /\ billboard_user_id' = ""
             ELSE UNCHANGED <<user, billboard_user_id>>
          /\ lastOp' = Op("deleteUser", deleteUserCall, 1)
       \/ /\ UNCHANGED <<usersStore, usersNotify, user, billboard_user_id>>
          /\ lastOp' = Escaped("deleteUser", deleteUserCall, "rejected")

\* both providers over a remote collection of users that holds the account
\* an administrator is about to delete
InitCascade ==
    /\ db \in BOOLEAN
    /\ quota = "free"
    /\ crashed = FALSE
    /\ deleteUserCall = ""
    /\ PageInit
    /\ ExpenseInit({Absent, Stored(<<>>)})
    /\ AuthInit({EarlierUsers}, {Absent}, {"", "u1"})
    /\ lastOp = Op("init", "", 0)
    /\ lastInput = <<>>

\* expenses of two owners, and the deletion of one of the owners
NextCascade ==
    \/ /\ \/ Mount
          \/ OnSnapshot
          \/ \E e \in {x \in NewExpenses : x.createdAt = T1} : Redelivered /\ addExpense(e)
          \/ deleteByUserCommit
          \/ deleteByUserAbort
       /\ lastInput' = <<>>
    \/ MountAuth
    \/ OnUsersSnapshot
    \/ \E c \in LoginInputs : UsersRedelivered /\ login(c[1], c[2])
    \/ confirmDelete("u1")
    \/ deleteUserSettles

SpecCascade == InitCascade /\ [][NextCascade]_vars

\* logging in and out while accounts are created, changed and removed
NextLogin ==
    \/ MountAuth
    \/ OnUsersSnapshot
    \/ OnUsersSnapshotError
    \/ \E c \in LoginInputs : login(c[1], c[2])
    \/ logout
    \/ UsersRedelivered /\ signup("Alice", "alice@x.com", "pw1")
    \/ UsersRedelivered /\ updateUserPassword("u1", "ADMIN")
    \/ UsersRedelivered /\ deleteUser("u1")

SpecLogin == InitAuth /\ [][NextLogin]_vars

\* an identifier no expense was ever created with
UnknownId == "e2"

\* edits, status changes and removals aimed at a record that does not exist
NextUnknown ==
    \/ /\ \/ Mount
          \/ OnSnapshot
          \/ \E e \in {x \in NewExpenses : x.id # UnknownId} : addExpense(e)
          \/ \E s \in Statuses, n \in FieldNotes \cup {Undefined} :
                updateStatus(UnknownId, s, n)
          \/ deleteExpense(UnknownId)
       /\ lastInput' = <<>>
    \/ \E p \in FieldPatches : editExpense(UnknownId, p) /\ lastInput' = p

SpecUnknown == Init /\ [][NextUnknown]_vars

\* the origin's local storage runs out of room
storageFills ==
    /\ quota = "free" /\ ~crashed /\ ~tornDown
    /\ quota' = "full"
    /\ UNCHANGED <<db, pageVars, crashed, deleteUserCall, expVars, authVars>>
    /\ lastOp' = Op("storageFills", "", 0)
    /\ lastInput' = <<>>

\* both providers, with or without a store handle, over a store that holds
\* an account
InitFailures ==
    /\ db \in BOOLEAN
    /\ quota = "free"
    /\ crashed = FALSE
    /\ deleteUserCall = ""
    /\ PageInit
    /\ ExpenseInit({Absent})
    /\ AuthInit({EarlierUsers}, {Absent}, {""})
    /\ lastOp = Op("init", "", 0)
    /\ lastInput = <<>>

\* the operations of the two repositories over a store whose writes may be
\* rejected and a local storage that may be full
NextFailures ==
    \/ /\ \/ Mount
          \/ OnSnapshot
          \/ Quiescent /\ addExpense(CloudExpense)
          \/ Quiescent /\ updateStatus("e1", "Approved", Undefined)
          \/ Quiescent /\ editExpense("e1", MkPatch(Omit, Omit, Omit, "missing receipt",
                                                    OmitTotal))
          \/ Quiescent /\ deleteExpense("e1")
          \/ Quiescent /\ deleteExpensesByUserId("u1")
          \/ Quiescent /\ deleteByUserQuery("u1")
          \/ deleteByUserCommit
          \/ deleteByUserAbort
       /\ lastInput' = <<>>
    \/ MountAuth
    \/ OnUsersSnapshot
    \/ Quiescent /\ signup("Alice", "alice@x.com", "pw1")
    \/ Quiescent /\ updateUserRole("u1", "Manager")
    \/ Quiescent /\ requestProfileUpdate("u1", "Alice B", "alice.b@x.com")
    \/ Quiescent /\ resolveProfileUpdate("u1", TRUE)
    \/ Quiescent /\ deleteUser("u1")
    \/ storageFills

SpecFailures == InitFailures /\ [][NextFailures]_vars

(***************************************************************************)
(* SalesHome: the detail of one expense and its edit form.                 *)
(***************************************************************************)
\* the records AddExpense.handleSubmit builds: simpleId() gives each record an
\* identifier of its own, so an identifier is created with one owner and time
CreatedExpenses ==
    {e \in NewExpenses : \/ e.id = "e1" /\ e.userId = "u1" /\ e.createdAt = T1
                         \/ e.id = "e2" /\ e.userId = "u2" /\ e.createdAt = T2}

\* what the inputs of the edit form change: notes and total
EditInputs ==
    {MkPatch(Omit, Omit, Omit, n, t) :
        n \in FieldNotes \cup {Omit}, t \in {50, OmitTotal}}

\* an edit form that stamps the time of the edit on the record
EditFormStampingNow(selected, edits) ==
    [MergeFields(selected, edits) EXCEPT !.createdAt = T2]

\* setEditForm(selectedExpense), then setEditForm({...editForm, field: value})
EditForm(selected, edits) ==
    MergeFields(selected, edits)

\* the onClick of a row of the list: setSelectedExpense(expense)
selectExpense(i) ==
    /\ mounted /\ ~crashed /\ ~tornDown
    /\ i \in DOMAIN expenses
    /\ selectedExpense' = expenses[i]
    /\ UNCHANGED <<db, quota, restVars, deleteUserCall, crashed, expVars, authVars>>
    /\ lastOp' = Op("selectExpense", expenses[i].id, 1)

\* handleEditClick, the inputs of the form, then handleSaveClick
handleSaveClick(edits) ==
    /\ selectedExpense.id # ""
    /\ LET editForm == EditForm(selectedExpense, edits)
       IN  /\ editExpenseCall(selectedExpense.id, editForm)
           /\ selectedExpense' = MergeFields(selectedExpense, editForm)

\* the sales page over the repository: records are created, approved, deleted,
\* opened and edited through the form
NextEdit ==
    /\ \/ Mount
       \/ OnSnapshot
       \/ \E e \in CreatedExpenses : Redelivered /\ addExpense(e)
       \/ \E id \in Ids : Redelivered /\ updateStatus(id, "Approved", Undefined)
       \/ \E id \in Ids : Redelivered /\ deleteExpense(id)
       \/ \E i \in 1..MaxExpenses : selectExpense(i)
       \/ \E p \in EditInputs : handleSaveClick(p)
    /\ lastInput' = <<>>

SpecEdit == Init /\ [][NextEdit]_vars

(***************************************************************************)
(* Deletion of one expense, over what earlier sessions left behind.        *)
(***************************************************************************)
\* three records of earlier sessions, newest first
EarlierExpenses ==
    << [id |-> "e3", userId |-> "u2", createdAt |-> T2,
        status |-> "Submitted", notes |-> "", total |-> 10],
       [id |-> "e2", userId |-> "u1", createdAt |-> T2,
        status |-> "Approved", notes |-> "", total |-> 10],
       [id |-> "e1", userId |-> "u1", createdAt |-> T1,
        status |-> "Submitted", notes |-> "", total |-> 10] >>

\* the same records as the documents of the remote collection
EarlierDocs ==
    [k \in {"e1", "e2", "e3"} |->
        CHOOSE e \in {EarlierExpenses[i] : i \in 1..3} : e.id = k]

\* simpleId(): the identifier of a new record is held by no other record
FreshId(id) ==
    /\ \A i \in DOMAIN expenses : expenses[i].id # id
    /\ id \notin DOMAIN expensesStore

\* a session that starts over the records of earlier sessions, or over none
InitDelete ==
    /\ db \in BOOLEAN
    /\ quota = "free"
    /\ crashed = FALSE
    /\ deleteUserCall = ""
    /\ PageInit
    /\ mounted = FALSE
    /\ useCloud = FALSE
    /\ expenses = <<>>
    /\ expensesStore \in IF db THEN {<<>>, EarlierDocs} ELSE {<<>>}
    /\ expensesNotify = FALSE
    /\ batch = NoBatch
    /\ track_expense_data \in
          IF db THEN {Absent} ELSE {Absent, Stored(<<>>), Stored(EarlierExpenses)}
    /\ AuthInit({<<>>}, {Absent}, {""})
    /\ lastOp = Op("init", "", 0)
    /\ lastInput = <<>>

\* records are created under fresh identifiers and deleted one by one
NextDelete ==
    /\ \/ Mount
       \/ OnSnapshot
       \/ \E e \in NewExpenses : FreshId(e.id) /\ addExpense(e)
       \/ \E id \in Ids \cup {"e3"} : deleteExpense(id)
    /\ lastInput' = <<>>

SpecDelete == InitDelete /\ [][NextDelete]_vars

(***************************************************************************)
(* Two clients of one remote store.                                        *)
(***************************************************************************)
\* what a step of the other client leaves alone in this one
PeerFrame ==
    UNCHANGED <<db, quota, tornDown, userToDelete, fallback, selectedExpense,
                deleteUserCall, crashed, mounted, useCloud, expenses, batch,
                track_expense_data, authMounted, authUseCloud, allUsers, user,
                isLoading, track_expense_users, billboard_user_id, now>>

\* the onSnapshot callback of 'expenses' in the other client
peerOnSnapshot ==
    /\ db /\ peer.expensesSeen # expensesStore
    /\ peer' = [peer EXCEPT !.expensesSeen = expensesStore,
                            !.expenses = SortByDate(SnapshotDocs(expensesStore))]
    /\ PeerFrame
    /\ UNCHANGED <<expensesStore, expensesNotify, usersStore, usersNotify>>
    /\ lastOp' = Op("peerOnSnapshot", "", Len(peer'.expenses))
    /\ lastInput' = <<>>

\* the onSnapshot callback of 'users' in the other client
peerOnUsersSnapshot ==
    /\ db /\ peer.usersSeen # usersStore
    /\ peer' = [peer EXCEPT !.usersSeen = usersStore,
                            !.allUsers = SnapshotUsers(usersStore)]
    /\ PeerFrame
    /\ UNCHANGED <<expensesStore, expensesNotify, usersStore, usersNotify>>
    /\ lastOp' = Op("peerOnUsersSnapshot", "", Len(peer'.allUsers))
    /\ lastInput' = <<>>

\* a write of the other client to 'expenses', notified to every listener
peerWriteStore(name, id, new) ==
    /\ db
    /\ expensesStore' = new
    /\ expensesNotify' = TRUE
    /\ PeerFrame
    /\ UNCHANGED <<peer, usersStore, usersNotify>>
    /\ lastOp' = Op(name, id, 1)
    /\ lastInput' = <<>>

\* updateStatus and deleteExpense called in the other client
peerUpdateStatus(id, status) ==
    /\ id \in DOMAIN expensesStore
    /\ peerWriteStore("peerUpdateStatus", id,
                      UpdateDoc(expensesStore, id, StatusUpdateData(status, Undefined)))

peerDeleteExpense(id) ==
    peerWriteStore("peerDeleteExpense", id, DeleteDoc(expensesStore, id))

\* updateUserRole called in the other client
peerUpdateUserRole(userId, newRole) ==
    /\ db
    /\ userId \in DOMAIN usersStore
    /\ usersStore' = UpdateDoc(usersStore, userId, [role |-> newRole])
    /\ usersNotify' = TRUE
    /\ PeerFrame
    /\ UNCHANGED <<peer, expensesStore, expensesNotify>>
    /\ lastOp' = Op("peerUpdateUserRole", userId, 1)
    /\ lastInput' = <<>>

\* two clients in cloud mode that write without waiting for each other; one
\* account is signed up
NextConverge ==
    \/ /\ \/ Mount
          \/ OnSnapshot
          \/ addExpense(CloudExpense)
          \/ updateStatus("e1", "Approved", Undefined)
       /\ lastInput' = <<>>
    \/ MountAuth
    \/ OnUsersSnapshot
    \/ now = 0 /\ signup("Alice", "alice@x.com", "pw1")
    \/ peerOnSnapshot
    \/ peerOnUsersSnapshot
    \/ peerUpdateStatus("e1", "Rejected")
    \/ peerDeleteExpense("e1")
    \/ peerUpdateUserRole("u1", "Manager")

SpecConverge == InitCloud /\ [][NextConverge]_vars

(***************************************************************************)
(* A local-mode session and the snapshots it persists.                     *)
(***************************************************************************)
\* what the inputs of the edit form change, the total input cleared included
FormInputs ==
    {MkPatch(Omit, Omit, Omit, n, t) :
        n \in {"missing receipt", Omit}, t \in {50, NaN, OmitTotal}}

\* a local-mode session over a local storage with room left
InitSave ==
    /\ db = FALSE
    /\ quota = "free"
    /\ crashed = FALSE
    /\ deleteUserCall = ""
    /\ PageInit
    /\ ExpenseInit({Absent, Corrupt, NonArray, Stored(<<>>)})
    /\ AuthInit({<<>>}, {Absent, Corrupt}, {""})
    /\ lastOp = Op("init", "", 0)
    /\ lastInput = <<>>

\* the operations of both repositories and the edit form of the sales page
NextSave ==
    \/ /\ \/ Mount
          \/ \E e \in CreatedExpenses : FreshId(e.id) /\ addExpense(e)
          \/ updateStatus("e1", "Approved", "ok")
          \/ \E id \in Ids : deleteExpense(id)
          \/ \E i \in 1..MaxExpenses : selectExpense(i)
          \/ \E p \in FormInputs : handleSaveClick(p)
       /\ lastInput' = <<>>
    \/ MountAuth
    \/ now = 0 /\ signup("Alice", "alice@x.com", "pw1")
    \/ updateUserRole("u1", "Manager")

SpecSave == InitSave /\ [][NextSave]_vars

(***************************************************************************)
(* Teardown of the providers.                                              *)
(***************************************************************************)
\* the cleanups of the two init effects, run when the providers unmount:
\* unsubscribe() of each listener
teardown ==
    /\ mounted /\ authMounted /\ ~tornDown
    /\ tornDown' = TRUE
    /\ UNCHANGED <<db, quota, selectedExpense, userToDelete, peer, fallback,
                   deleteUserCall, crashed, expVars, authVars>>
    /\ lastOp' = Op("teardown", "", 0)
    /\ lastInput' = <<>>

\* a client in cloud mode that is torn down while another one goes on writing
\* and the store goes on notifying or failing
NextTeardown ==
    \/ /\ \/ Mount
          \/ OnSnapshot
          \/ addExpense(CloudExpense)
       /\ lastInput' = <<>>
    \/ MountAuth
    \/ OnUsersSnapshot
    \/ OnUsersSnapshotError
    \/ teardown
    \/ peerOnSnapshot
    \/ peerOnUsersSnapshot
    \/ peerUpdateStatus("e1", "Rejected")
    \/ peerDeleteExpense("e1")
    \/ peerUpdateUserRole("u1", "Manager")

SpecTeardown == InitCloud /\ [][NextTeardown]_vars

(***************************************************************************)
(* UserManagement: the admin screen.                                       *)
(***************************************************************************)
\* the accounts the admin screen lists: the administrator and a sales user
AdminUsers == MOCK_USERS \o << NewUser("Alice", "alice@x.com", "pw1", 1) >>

\* the same accounts as the documents of the remote collection
AdminDocs ==
    [k \in {"u1", UserId(1)} |->
        CHOOSE u \in {AdminUsers[i] : i \in 1..2} : u.id = k]

\* the administrator u1 has a session, in either mode
InitAdmin ==
    /\ db \in BOOLEAN
    /\ quota = "free"
    /\ crashed = FALSE
    /\ deleteUserCall = ""
    /\ PageInit
    /\ ExpenseInit({Stored(<<>>)})
    /\ AuthInit(IF db THEN {AdminDocs} ELSE {<<>>},
                IF db THEN {Absent} ELSE {Stored(AdminUsers)}, {"u1"})
    /\ lastOp = Op("init", "", 0)
    /\ lastInput = <<>>

\* a delete control that every row shows
handleDeleteClickAnyRow(i) ==
    /\ mounted /\ authMounted /\ ~crashed /\ ~tornDown
    /\ i \in DOMAIN allUsers
    /\ userToDelete' = allUsers[i]
    /\ UNCHANGED <<db, quota, tornDown, peer, fallback, selectedExpense,
                   deleteUserCall, crashed, expVars, authVars>>
    /\ lastOp' = Op("handleDeleteClick", allUsers[i].id, 1)
    /\ lastInput' = <<>>

\* the delete button of a row and the swipe of a card, both rendered or
\* guarded by u.id !== currentUser?.id: handleDeleteClick(u)
handleDeleteClick(i) ==
    /\ mounted /\ authMounted /\ ~crashed /\ ~tornDown
    /\ i \in DOMAIN allUsers
    /\ allUsers[i].id # user.id
    /\ userToDelete' = allUsers[i]
    /\ UNCHANGED <<db, quota, tornDown, peer, fallback, selectedExpense,
                   deleteUserCall, crashed, expVars, authVars>>
    /\ lastOp' = Op("handleDeleteClick", allUsers[i].id, 1)
    /\ lastInput' = <<>>

\* the confirm button of the modal: confirmDelete
confirmDeleteModal ==
    /\ userToDelete # NoUser
    /\ deleteAccount(userToDelete.id)
    /\ userToDelete' = NoUser

\* the cancel button of the modal: cancelDelete
cancelDelete ==
    /\ authMounted /\ ~crashed /\ ~tornDown
    /\ userToDelete # NoUser
    /\ userToDelete' = NoUser
    /\ UNCHANGED <<db, quota, tornDown, peer, fallback, selectedExpense,
                   deleteUserCall, crashed, expVars, authVars>>
    /\ lastOp' = Op("cancelDelete", userToDelete.id, 0)
    /\ lastInput' = <<>>

\* the role select of a row or card, disabled when u.id === currentUser?.id
roleSelect(i, newRole) ==
    /\ i \in DOMAIN allUsers
    /\ allUsers[i].id # user.id
    /\ updateUserRole(allUsers[i].id, newRole)

\* the admin screen over both repositories, while another client changes the
\* administrator's own record
NextAdmin ==
    \/ Mount /\ lastInput' = <<>>
    \/ OnSnapshot /\ lastInput' = <<>>
    \/ deleteByUserCommit /\ lastInput' = <<>>
    \/ MountAuth
    \/ OnUsersSnapshot
    \/ deleteUserSettles
    \/ \E i \in 1..2 : handleDeleteClick(i)
    \/ confirmDeleteModal
    \/ cancelDelete
    \/ \E i \in 1..2 : roleSelect(i, "Manager")
    \/ peerUpdateUserRole("u1", "Sales")
    \/ logout

SpecAdmin == InitAdmin /\ [][NextAdmin]_vars

\* the identifiers the single-field changes are called with: the two accounts
\* and one that no account has
FieldUserIds == {"u1", UserId(1), UserId(MaxNow + 1)}

\* the single-field changes of an account, among profile requests, issued by
\* a client that is up to date
NextUserField ==
    \/ MountAuth
    \/ OnUsersSnapshot
    \/ UsersRedelivered /\ requestProfileUpdate("u1", "Alice B", "alice.b@x.com")
    \/ \E id \in FieldUserIds : UsersRedelivered /\ updateUserRole(id, "Manager")
    \/ \E id \in FieldUserIds : UsersRedelivered /\ updateUserAvatar(id, "avatar.png")
    \/ \E id \in FieldUserIds : UsersRedelivered /\ updateUserPassword(id, "pw2")

SpecUserField == InitAdmin /\ [][NextUserField]_vars

(***************************************************************************)
(* AddExpense: the owner's name written on a new expense.                  *)
(***************************************************************************)
\* AddExpense.handleSubmit: if (!user) return; addExpense({ id: simpleId(),
\* userId: user.id, userName: user.name, ..., status: SUBMITTED, createdAt })
handleSubmit(id) ==
    /\ user # NoUser
    /\ FreshId(id)
    /\ addExpense([id |-> id, userId |-> user.id, userName |-> user.name,
                   createdAt |-> T1, status |-> "Submitted", notes |-> "",
                   total |-> 10])

\* expenses are submitted while the accounts are renamed, changed and removed
NextNames ==
    \/ /\ \/ Mount
          \/ OnSnapshot
          \/ \E id \in Ids : Quiescent /\ handleSubmit(id)
       /\ lastInput' = <<>>
    \/ MountAuth
    \/ OnUsersSnapshot
    \/ Quiescent /\ requestProfileUpdate("u1", "Alice B", "alice.b@x.com")
    \/ \E approve \in BOOLEAN : Quiescent /\ resolveProfileUpdate("u1", approve)
    \/ Quiescent /\ updateUserRole("u1", "Manager")
    \/ Quiescent /\ deleteUser(UserId(1))
    \/ Quiescent /\ logout
    \/ Quiescent /\ login("alice@x.com", "pw1")

SpecNames == InitAdmin /\ [][NextNames]_vars

(***************************************************************************)
(* The resolution of a profile request while another client writes.        *)
(***************************************************************************)
\* requestProfileUpdate called in the other client, at this client's clock
peerRequestProfileUpdate(userId, name, email) ==
    /\ db
    /\ userId \in DOMAIN usersStore
    /\ usersStore' = UpdateDoc(usersStore, userId, PendingUpdate(name, email, now))
    /\ usersNotify' = TRUE
    /\ PeerFrame
    /\ UNCHANGED <<peer, expensesStore, expensesNotify>>
    /\ lastOp' = Op("peerRequestProfileUpdate", userId, 1)
    /\ lastInput' = <<>>

\* an administrator resolves the request of an account in cloud mode while
\* another client changes the role of the account or files a newer request
NextResolve ==
    \/ MountAuth
    \/ OnUsersSnapshot
    \/ UsersRedelivered /\ requestProfileUpdate("u1", "Alice B", "alice.b@x.com")
    \/ \E approve \in BOOLEAN : resolveProfileUpdate("u1", approve)
    \/ peerOnUsersSnapshot
    \/ peerUpdateUserRole("u1", "Manager")
    \/ peerRequestProfileUpdate("u1", "Alice C", "alice.c@x.com")

SpecResolve == InitCloud /\ [][NextResolve]_vars

(***************************************************************************)
(* The removal of an account while a request on it is resolved.            *)
(***************************************************************************)
\* deleteUser called in the other client
peerDeleteUser(userId) ==
    /\ db
    /\ usersStore' = DeleteDoc(usersStore, userId)
    /\ usersNotify' = TRUE
    /\ PeerFrame
    /\ UNCHANGED <<peer, expensesStore, expensesNotify>>
    /\ lastOp' = Op("peerDeleteUser", userId, 1)
    /\ lastInput' = <<>>

\* an account with a pending request is removed by one client while an
\* administrator resolves the request
NextReappear ==
    \/ MountAuth
    \/ OnUsersSnapshot
    \/ UsersRedelivered /\ requestProfileUpdate("u1", "Alice B", "alice.b@x.com")
    \/ \E approve \in BOOLEAN : resolveProfileUpdate("u1", approve)
    \/ UsersRedelivered /\ updateUserRole("u1", "Manager")
    \/ deleteUser("u1")
    \/ peerOnUsersSnapshot
    \/ peerDeleteUser("u1")

SpecReappear == InitCloud /\ [][NextReappear]_vars

(***************************************************************************)
(* The addresses of the accounts of a local session.                       *)
(***************************************************************************)
\* the name and address a profile form submits
AddressRequests == {<<"Alice B", "alice.b@x.com">>, <<"Alice", "ADMIN@X.COM">>}

\* AuthProvider without a remote store, over the seed accounts
InitAddresses ==
    /\ db = FALSE
    /\ quota = "free"
    /\ crashed = FALSE
    /\ deleteUserCall = ""
    /\ PageInit
    /\ ExpenseInit({Absent})
    /\ AuthInit({<<>>}, {Absent, Stored(MOCK_USERS)}, {""})
    /\ lastOp = Op("init", "", 0)
    /\ lastInput = <<>>

\* sign-up, the two-phase profile update and account removal
NextAddresses ==
    \/ MountAuth
    \/ \E c \in Credentials : signup(c[1], c[2], c[3])
    \/ \E id \in UserIds, r \in AddressRequests : requestProfileUpdate(id, r[1], r[2])
    \/ \E id \in UserIds, approve \in BOOLEAN : resolveProfileUpdate(id, approve)
    \/ \E id \in UserIds : deleteUser(id)

SpecAddresses == InitAddresses /\ [][NextAddresses]_vars

(***************************************************************************)
(* The session among sign-up, login and the removal of accounts.           *)
(***************************************************************************)
\* AuthProvider in either mode, over an account and no persisted session
InitSession ==
    /\ db \in BOOLEAN
    /\ quota = "free"
    /\ crashed = FALSE
    /\ deleteUserCall = ""
    /\ PageInit
    /\ ExpenseInit({Absent})
    /\ AuthInit({EarlierUsers}, {Absent}, {""})
    /\ lastOp = Op("init", "", 0)
    /\ lastInput = <<>>

\* the operations that set or clear the session, and the removal of an
\* account by this client or by another
NextSession ==
    \/ MountAuth
    \/ OnUsersSnapshot
    \/ \E c \in Credentials : signup(c[1], c[2], c[3])
    \/ login("ADMIN@X.COM", "admin")
    \/ logout
    \/ \E id \in UserIds : deleteUser(id)
    \/ \E id \in UserIds : peerDeleteUser(id)

SpecSession == InitSession /\ [][NextSession]_vars

(***************************************************************************)
(* The accounts sign-up creates, under later subscription updates.         *)
(***************************************************************************)
\* sign-up and login in either mode while another client writes to 'users';
\* no account is removed
NextDurable ==
    \/ MountAuth
    \/ OnUsersSnapshot
    \/ \E c \in Credentials : signup(c[1], c[2], c[3])
    \/ \E c \in Credentials : login(c[2], c[3])
    \/ logout
    \/ peerOnUsersSnapshot
    \/ peerUpdateUserRole("u1", "Manager")

SpecDurable == InitSession /\ [][NextDurable]_vars

(***************************************************************************)
(* One sequence of calls, made in local mode and in cloud mode.            *)
(***************************************************************************)
\* a local-mode client over the collections that the remote store also holds
InitEquiv ==
    /\ db = FALSE
    /\ quota = "free"
    /\ crashed = FALSE
    /\ deleteUserCall = ""
    /\ PageInit
    /\ ExpenseInit({Stored(<<>>)})
    /\ AuthInit({EarlierUsers}, {Absent, Stored(MOCK_USERS)}, {""})
    /\ lastOp = Op("init", "", 0)
    /\ lastInput = <<>>

\* the calls made in both modes
BothModes ==
    {"addExpense", "updateStatus", "deleteExpense", "signup", "updateUserRole",
     "deleteUser"}

\* the last call of the local-mode client has not been made in cloud mode yet
CallPending == lastOp.op \in BothModes /\ lastOp.n = 1

\* the cloud branch of the call the local-mode client made last, by a client
\* in cloud mode: its write to the remote collection
cloudCall ==
    /\ CallPending
    /\ CASE lastOp.op = "addExpense" ->
              /\ expensesStore' = SetDoc(expensesStore, lastInput.id, lastInput)
              /\ UNCHANGED usersStore
         [] lastOp.op = "updateStatus" ->
              /\ expensesStore' =
                    IF lastInput.id \in DOMAIN expensesStore
                    THEN UpdateDoc(expensesStore, lastInput.id,
                                   StatusUpdateData(lastInput.status, lastInput.notes))
                    ELSE expensesStore
              /\ UNCHANGED usersStore
         [] lastOp.op = "deleteExpense" ->
              /\ expensesStore' = DeleteDoc(expensesStore, lastInput.id)
              /\ UNCHANGED usersStore
         [] lastOp.op = "signup" ->
              /\ usersStore' = SetDoc(usersStore, user.id, user)
              /\ UNCHANGED expensesStore
         [] lastOp.op = "updateUserRole" ->
              /\ usersStore' =
                    IF lastOp.arg \in DOMAIN usersStore
                    THEN UpdateDoc(usersStore, lastOp.arg, [role |-> "Manager"])
                    ELSE usersStore
              /\ UNCHANGED expensesStore
         [] lastOp.op = "deleteUser" ->
              /\ usersStore' = DeleteDoc(usersStore, lastOp.arg)
              /\ UNCHANGED expensesStore
    /\ PeerFrame
    /\ UNCHANGED <<peer, expensesNotify, usersNotify>>
    /\ lastOp' = Op("cloudCall", lastOp.op, 1)
    /\ lastInput' = <<>>

\* the expenses handed to addExpense: of one owner, with either identifier
\* and either creation time
EquivExpenses == {e \in NewExpenses : e.userId = "u1"}

\* both providers have started and the last call has been made in both modes
BothReady == mounted /\ authMounted /\ ~CallPending

\* each call is made by the local-mode client and then in cloud mode
NextEquiv ==
    \/ Mount /\ lastInput' = <<>>
    \/ MountAuth
    \/ \E e \in EquivExpenses : BothReady /\ addExpense(e) /\ lastInput' = e
    \/ /\ BothReady
       /\ updateStatus("e1", "Approved", "ok")
       /\ lastInput' = [id |-> "e1", status |-> "Approved", notes |-> "ok"]
    \/ BothReady /\ deleteExpense("e1") /\ lastInput' = [id |-> "e1"]
    \/ BothReady /\ now = 0 /\ signup("Alice", "alice@x.com", "pw1")
    \/ BothReady /\ updateUserRole("u1", "Manager")
    \/ \E id \in UserIds : BothReady /\ deleteUser(id)
    \/ cloudCall

SpecEquiv == InitEquiv /\ [][NextEquiv]_vars

(***************************************************************************)
(* Claims about the expense repository.                                    *)
(***************************************************************************)
\* s is ordered by creation time, newest first
SortedNewestFirst(s) ==
    \A i \in 1..(Len(s) - 1) :
        GetTime(s[i].createdAt) >= GetTime(s[i + 1].createdAt)

\* the records of s not owned by u, in the order of s
RECURSIVE NotOwnedBy(_, _)
NotOwnedBy(s, u) ==
    IF s = <<>> THEN <<>>
    ELSE (IF Head(s).userId = u THEN <<>> ELSE <<Head(s)>>) \o NotOwnedBy(Tail(s), u)

\* C1: in every reachable state, in cloud and in local mode, the in-memory
\* expense collection is sorted by creation time, newest first.
C1_AlwaysSortedNewestFirst == SortedNewestFirst(expenses)

\* C2: after any sequence of create calls, listByOwner(owner) holds exactly
\* the records of that owner, newest creation time first.
C2_ListByOwnerNewestFirst ==
    \A u \in Owners :
        LET list == getExpensesByUser(expenses, u)
        IN  /\ \A i \in DOMAIN list : list[i].userId = u
            /\ Len(list) = CountOwner(expenses, u)
            /\ SortedNewestFirst(list)

\* C3: deleteByOwner(owner) removes every expense of that owner and leaves
\* every other expense present, unchanged and in the same relative order.
\* Local mode: the step of deleteExpensesByUserId. Cloud mode: getDocs matches
\* exactly the owner's documents, and a commit whose matched set is still the
\* owner's set removes them and nothing else, in the store and in the
\* collection a listener builds from it.
C3_DeleteByOwnerFrame ==
    [][ /\ lastOp'.op = "deleteExpensesByUserId" =>
              /\ \A i \in DOMAIN expenses' : expenses'[i].userId # lastOp'.arg
              /\ expenses' = NotOwnedBy(expenses, lastOp'.arg)
        /\ lastOp'.op = "deleteByUserQuery" =>
              batch'.refs = {k \in DOMAIN expensesStore :
                                expensesStore[k].userId = lastOp'.arg}
        /\ ( /\ lastOp'.op = "deleteByUserCommit"
             /\ batch.refs = {k \in DOMAIN expensesStore :
                                 expensesStore[k].userId = batch.userId} ) =>
              /\ \A k \in DOMAIN expensesStore' :
                     expensesStore'[k].userId # batch.userId
              /\ \A k \in DOMAIN expensesStore :
                     expensesStore[k].userId # batch.userId =>
                         /\ k \in DOMAIN expensesStore'
                         /\ expensesStore'[k] = expensesStore[k]
              /\ DOMAIN expensesStore' \subseteq DOMAIN expensesStore
              /\ SortByDate(SnapshotDocs(expensesStore')) =
                     NotOwnedBy(SortByDate(SnapshotDocs(expensesStore)), batch.userId)
      ]_vars

\* C3 witness: a local deleteByOwner removed a record and kept another one
C3_Witness ==
    /\ ~useCloud
    /\ lastOp.op = "deleteExpensesByUserId"
    /\ lastOp.n >= 1
    /\ Len(expenses) >= 1

\* C4: in cloud mode deleteByOwner is atomic. While other clients write and
\* the operation may stop at any point, a step of the operation either leaves
\* the store as it was or removes all the documents it matched at once, and
\* touches no other document; when it has committed none of them remains.
C4_DeleteByOwnerAtomic ==
    [][ (batch.phase = "queried" /\ batch' # batch) =>
            /\ \/ expensesStore' = expensesStore
               \/ /\ \A k \in batch.refs : k \notin DOMAIN expensesStore'
                  /\ \A k \in DOMAIN expensesStore \ batch.refs :
                         /\ k \in DOMAIN expensesStore'
                         /\ expensesStore'[k] = expensesStore[k]
            /\ lastOp'.op = "deleteByUserCommit" =>
                   \A k \in batch.refs : k \notin DOMAIN expensesStore'
      ]_vars

\* C4 witness: a commit removed two documents in one step
C4_Witness ==
    /\ useCloud
    /\ lastOp.op = "deleteByUserCommit"
    /\ lastOp.n = 2
    /\ DOMAIN expensesStore = {}

\* C5: edit(id, partial) on an existing record changes exactly the fields the
\* partial record names; every other field of the record and every other
\* record is the same before and after (the store's document in cloud mode).
C5_EditChangesNamedFields ==
    [][ lastOp'.op = "editExpense" =>
          LET id == lastOp'.arg
              p == lastInput'
          IN
            IF useCloud
            THEN /\ DOMAIN expensesStore' = DOMAIN expensesStore
                 /\ \A k \in DOMAIN expensesStore :
                      \A f \in DOMAIN expensesStore[k] :
                        expensesStore'[k][f] =
                            IF k = id /\ lastOp'.n = 1 /\ f \in DOMAIN p
                            THEN p[f] ELSE expensesStore[k][f]
            ELSE /\ Len(expenses') = Len(expenses)
                 /\ \A i \in DOMAIN expenses :
                      \A f \in DOMAIN expenses[i] :
                        expenses'[i][f] =
                            IF expenses[i].id = id /\ f \in DOMAIN p
                            THEN p[f] ELSE expenses[i][f]
      ]_vars

\* C5 witness: an edit of e1 changed its total while e2 is also held
C5_Witness ==
    /\ lastOp = Op("editExpense", "e1", 1)
    /\ ~useCloud
    /\ \E i \in DOMAIN expenses :
          /\ expenses[i].id = "e1" /\ expenses[i].total = 50
          /\ expenses[i].notes = "missing receipt"
    /\ \E i \in DOMAIN expenses : expenses[i].id = "e2" /\ expenses[i].total = 10

\* C6: updateStatus(id, status, notes?) sets the status of the record; an
\* absent or empty notes argument leaves the record's notes as they were and
\* a non-empty one replaces them, in local and in cloud mode.
C6_UpdateStatusNotes ==
    [][ lastOp'.op = "updateStatus" =>
        \A id \in Ids, st \in Statuses, n \in {lastOp'.arg} :
          updateStatus(id, st, n) =>
            IF useCloud
            THEN lastOp'.n = 1 =>
                   /\ expensesStore'[id].status = st
                   /\ expensesStore'[id].notes =
                          IF n = Undefined \/ n = "" THEN expensesStore[id].notes ELSE n
            ELSE /\ Len(expenses') = Len(expenses)
                 /\ \A i \in DOMAIN expenses :
                      expenses[i].id = id =>
                        /\ expenses'[i].status = st
                        /\ expenses'[i].notes =
                               IF n = Undefined \/ n = "" THEN expenses[i].notes ELSE n
      ]_vars

\* C6 witness: updateStatus without a notes argument approved a record and
\* its notes are still the ones it had
C6_Witness ==
    /\ lastOp = Op("updateStatus", Undefined, 1)
    /\ \E i \in DOMAIN expenses :
          expenses[i].status = "Approved" /\ expenses[i].notes = "missing receipt"

(***************************************************************************)
(* Claims about the user repository.                                       *)
(***************************************************************************)
\* the authoritative record of the account id: the store's document in cloud
\* mode, the in-memory record in local mode; NoUser when there is none
Account(cloud, store, users, id) ==
    IF cloud THEN (IF id \in DOMAIN store THEN store[id] ELSE NoUser)
    ELSE FindById(users, id)

C8_RequestInstallsPending ==
    [][ lastOp'.op = "requestProfileUpdate" =>
          LET id == lastOp'.arg
              before == Account(authUseCloud, usersStore, allUsers, id)
              after == Account(authUseCloud', usersStore', allUsers', id)
          IN  IF before # NoUser /\ lastOp'.n = 1
              THEN /\ after.name = before.name
                   /\ after.email = before.email
                   /\ after.pendingUpdates = lastInput'
                   /\ lastInput' # NoPending
              ELSE /\ usersStore' = usersStore
                   /\ allUsers' = allUsers
      ]_vars

\* C8 witness: a request replaced the pending update the client still shows,
\* and the live name is the one the account had
C8_Witness ==
    /\ authUseCloud
    /\ lastOp = Op("requestProfileUpdate", "u1", 1)
    /\ "u1" \in DOMAIN usersStore
    /\ usersStore["u1"].name = "Admin"
    /\ usersStore["u1"].pendingUpdates.name = "Alice B"
    /\ FindById(allUsers, "u1").pendingUpdates # NoPending
    /\ FindById(allUsers, "u1").pendingUpdates.name = "Bob"

EqualIgnoringCase(a, b) ==
    \/ a = b
    \/ {a, b} = {"alice@x.com", "ALICE@X.COM"}
    \/ {a, b} = {"admin@x.com", "ADMIN@X.COM"}

\* the accounts that have signed up: the store's in cloud mode, the
\* collection's in local mode
SignedUp(cloud, store, users) ==
    IF cloud THEN {store[k] : k \in DOMAIN store}
    ELSE {users[i] : i \in DOMAIN users}

\* C10 as stated: a signup whose address equals, ignoring case, the address of
\* an account that has signed up creates no account and leaves the collection,
\* the store and the session as they were, in cloud mode also before the
\* earlier account has been redelivered.
C10_DuplicateSignupRejected ==
    [][ ( /\ lastOp'.op = "signup"
          /\ \E u \in SignedUp(authUseCloud, usersStore, allUsers) :
                EqualIgnoringCase(u.email, lastOp'.arg) ) =>
            /\ lastOp'.n = 0
            /\ UNCHANGED <<allUsers, usersStore, user, billboard_user_id>>
      ]_vars

\* C10 amended: a signup whose address equals, ignoring case, the address of
\* an account in the caller's in-memory collection creates no account and
\* leaves the collection, the store, the persisted snapshot and the session
\* as they were.
C10_DuplicateInCollectionRejected ==
    [][ ( /\ lastOp'.op = "signup"
          /\ \E i \in DOMAIN allUsers :
                EqualIgnoringCase(allUsers[i].email, lastOp'.arg) ) =>
            /\ lastOp'.n = 0
            /\ UNCHANGED <<allUsers, usersStore, user, billboard_user_id,
                           track_expense_users>>
      ]_vars

\* C10 witness: Alice signed up, and the signup of the same address in
\* capitals was turned down: one account, Alice, who holds the session
C10_Witness ==
    /\ lastOp = Op("signup", "ALICE@X.COM", 0)
    /\ Len(allUsers) = 1
    /\ allUsers[1].name = "Alice"
    /\ allUsers[1].email = "alice@x.com"
    /\ user = allUsers[1]
    /\ billboard_user_id = allUsers[1].id

\* C11: when saving the expense snapshot fails, the save is retried once with
\* the image of every record replaced by the empty string: a local-mode step
\* that sets the collection persists it whole when it fits, persists it
\* without images when only that fits (the collection keeping its images),
\* and otherwise leaves the persisted copy alone; no exception propagates
C11_SaveRetriesWithoutImages ==
    [][(mounted' /\ ~useCloud' /\ lastOp'.op \in {"addExpense", "deleteExpense"})
          => /\ lastOp'.err = "" /\ ~crashed'
             /\ track_expense_data' =
                   IF Fits(expenses') THEN Stored(expenses')
                   ELSE IF Fits(StripImages(expenses'))
                        THEN Stored(StripImages(expenses'))
                        ELSE track_expense_data]_vars

\* C12: on load in local mode, for the expense and for the user collection, a
\* persisted snapshot that is absent, unparseable or not an array yields the
\* seed data; initialization never fails and the in-memory collections are
\* always arrays
C12_LoadFallsBackToSeed ==
    [][/\ IsArray(expenses') /\ IsArray(allUsers')
       /\ (lastOp'.op = "mount" /\ ~useCloud')
             => /\ lastOp'.err = "" /\ ~crashed'
                /\ track_expense_data.kind # "array" => expenses' = MOCK_EXPENSES
       /\ (lastOp'.op \in {"mountAuth", "onUsersSnapshotError"} /\ ~authUseCloud')
             => /\ lastOp'.err = "" /\ ~crashed'
                /\ track_expense_users.kind # "array" => allUsers' = MOCK_USERS]_vars

\* a step that starts and ends in cloud mode changes the expense collection
\* only as the subscription callback delivering the store's content
ExpensesBySubscription ==
    (useCloud /\ useCloud' /\ expenses' # expenses)
       => /\ lastOp'.op = "onSnapshot"
          /\ expenses' = SortByDate(SnapshotDocs(expensesStore))

\* the same of the user collection
UsersBySubscription ==
    /\ lastOp'.op = "onUsersSnapshot"
    /\ allUsers' = SnapshotUsers(usersStore)

\* signup whose write to the store failed: the account is appended locally
SignupFallback ==
    /\ lastOp'.op = "signup"
    /\ usersStore' = usersStore
    /\ allUsers' = Append(allUsers, user')
    /\ user'.id = billboard_user_id'

C14_ModeOneWay ==
    [][/\ (~mounted /\ mounted') => (useCloud' <=> db)
       /\ (~authMounted /\ authMounted') => (authUseCloud' <=> db)
       /\ (mounted /\ useCloud' # useCloud)
             => (useCloud /\ ~useCloud' /\ lastOp'.op = "onSnapshotError")
       /\ (authMounted /\ authUseCloud' # authUseCloud)
             => (authUseCloud /\ ~authUseCloud' /\ lastOp'.op = "onUsersSnapshotError")]_vars

\* a session started in cloud mode that a subscription error put in local
\* mode, and that has written an account since
C14_Witness ==
    /\ db /\ mounted /\ useCloud
    /\ authMounted /\ ~authUseCloud
    /\ lastOp.op = "signup" /\ lastOp.n = 1
    /\ FindById(allUsers, user.id) # NoUser

\* the account userId is in the user collection (the store's in cloud mode)
HasAccount(cloud, store, users, userId) ==
    IF cloud THEN userId \in DOMAIN store ELSE FindById(users, userId) # NoUser

\* the expense collection (the store's in cloud mode) holds a record of userId
HasExpensesOf(cloud, store, list, userId) ==
    IF cloud THEN QueryByOwner(store, userId) # {} ELSE CountOwner(list, userId) > 0

\* C15: when an administrator deletes a user, the cascade takes effect before
\* or atomically with the removal of the user: in both modes and under every
\* interleaving, the step that removes the user record leaves no expense
\* owned by that user
C15_CascadeBeforeUserRemoval ==
    [][\A u \in Owners :
          (/\ HasAccount(authUseCloud, usersStore, allUsers, u)
           /\ ~HasAccount(authUseCloud', usersStore', allUsers', u))
             => ~HasExpensesOf(useCloud' /\ db, expensesStore', expenses', u)]_vars

\* C16: deleteUser(userId) removes the account, and whenever the deleted
\* account is that of the current session the session is terminated: the
\* current user becomes none and the persisted session identifier is removed
C16_DeleteUserEndsOwnSession ==
    [][(lastOp'.op = "deleteUser" /\ lastOp'.err = "")
          => /\ ~HasAccount(authUseCloud', usersStore', allUsers', lastOp'.arg)
             /\ (user # NoUser /\ user.id = lastOp'.arg)
                   => (user' = NoUser /\ billboard_user_id' = "")]_vars

\* a deleteUser of an existing account, called in the session of that account
C16_Witness ==
    /\ lastOp.op = "deleteUser" /\ lastOp.n = 1 /\ lastOp.err = ""
    /\ lastInput = [session |-> lastOp.arg] /\ lastOp.arg = UserId(1)
    /\ ~HasAccount(authUseCloud, usersStore, allUsers, lastOp.arg)
    /\ user = NoUser /\ billboard_user_id = ""

\* the accounts of users whose address equals email when case is ignored and
\* whose password is exactly password
Matching(users, email, password) ==
    {i \in DOMAIN users : /\ EqualIgnoringCase(users[i].email, email)
                          /\ users[i].password = password}

\* C17: login(email, password) succeeds exactly when some account in the
\* current collection has that address, ignoring case, and exactly that
\* password; on success the session user is that account and its identifier
\* is persisted; on failure the session and the persisted identifier are
\* unchanged
C17_LoginMatchesCredentials ==
    [][lastOp'.op = "login"
          => LET found == Matching(allUsers, lastOp'.arg, lastInput'.password)
             IN  /\ lastOp'.err = ""
                 /\ lastOp'.n = 1 <=> found # {}
                 /\ found # {}
                       => \E i \in found :
                             /\ \A j \in found : i <= j
                             /\ user' = allUsers[i]
                             /\ billboard_user_id' = allUsers[i].id
                 /\ found = {}
                       => (user' = user /\ billboard_user_id' = billboard_user_id)]_vars

\* a login with the address in another case than the account's
C17_Witness ==
    /\ lastOp.op = "login" /\ lastOp.n = 1 /\ lastOp.arg = "ADMIN@X.COM"
    /\ user # NoUser /\ user.email = "admin@x.com" /\ user.password = "admin"
    /\ billboard_user_id = user.id

\* no record has the identifier id, in the store or in the collection
NoRecord(id) == id \notin DOMAIN expensesStore /\ CountId(expenses, id) = 0

\* C18: edit, updateStatus and delete invoked with an identifier that matches
\* no record are silent no-ops in cloud and in local mode: the collection
\* and the store are unchanged and no error or exception is raised
C18_UnknownIdIsNoOp ==
    [][(/\ lastOp'.op \in {"editExpense", "updateStatus", "deleteExpense"}
        /\ NoRecord(UnknownId))
          => /\ lastOp'.err = ""
             /\ expenses' = expenses
             /\ expensesStore' = expensesStore]_vars

\* C19: no transient I/O failure escapes a repository operation: a rejected
\* cloud write and a local-storage save that exceeds the quota are caught
\* inside the repository and never reach the caller as an exception or a
\* rejected operation
C19_NoFailureEscapes ==
    [][lastOp'.err = "" /\ ~crashed']_vars

\* the documents of store that hold an expense with identifier id
DocsWithId(store, id) == {k \in DOMAIN store : store[k].id = id}

\* C20: in cloud mode create is idempotent on the expense identifier:
\* issuing create for the same expense two or more times leaves exactly one
\* record with that identifier in the store and in every client's
\* collection; a create of an identifier the store already holds adds no
\* document
C20_CloudCreateIdempotent ==
    [][(useCloud' /\ db)
          => /\ \A id \in Ids : /\ Cardinality(DocsWithId(expensesStore', id)) <= 1
                                /\ CountId(expenses', id) <= 1
             /\ (lastOp'.op = "addExpense" /\ lastOp'.n = 1)
                   => /\ DocsWithId(expensesStore', lastOp'.arg) = {lastOp'.arg}
                      /\ lastOp'.arg \in DOMAIN expensesStore
                            => DOMAIN expensesStore' = DOMAIN expensesStore
             /\ lastOp'.op = "onSnapshot"
                   => \A id \in DOMAIN expensesStore : CountId(expenses', id) = 1]_vars

\* a second create of an expense the client already holds: the store has
\* one document with its identifier, and so has the collection
C20_Witness ==
    /\ useCloud /\ db
    /\ lastOp.op = "addExpense" /\ lastOp.n = 1 /\ lastOp.arg = "e1"
    /\ CountId(expenses, "e1") = 1
    /\ expenses[1] = expensesStore["e1"]
    /\ DocsWithId(expensesStore, "e1") = {"e1"}

\* the identifier, owner and creation time a record was created with
CreatedWith(e) ==
    \E c \in CreatedExpenses \cup {MOCK_EXPENSES[1]} :
        c.id = e.id /\ c.userId = e.userId /\ c.createdAt = e.createdAt

Content == IF useCloud /\ db THEN SnapshotDocs(expensesStore) ELSE expenses

\* the records of s whose identifier is not id, in the order of s
OtherThan(s, id) == SelectSeq(s, LAMBDA e : e.id # id)

\* C22: delete(id) removes the record with that identifier and nothing else:
\* the records with another identifier stay, unchanged and in the same
\* relative order, and the repository shrinks by one record when the
\* identifier was present and by none when it was absent (in cloud mode also
\* the collection a listener builds from the store).
C22_DeleteRemovesOneRecord ==
    [][ (lastOp'.op = "deleteExpense" /\ lastOp'.err = "") =>
          LET id == lastOp'.arg
              present == \E i \in DOMAIN Content : Content[i].id = id
          IN  /\ Content' = OtherThan(Content, id)
              /\ Len(Content') = Len(Content) - (IF present THEN 1 ELSE 0)
              /\ SortByDate(SnapshotDocs(expensesStore')) =
                     OtherThan(SortByDate(SnapshotDocs(expensesStore)), id)
              /\ useCloud' = useCloud
      ]_vars

\* C22 witness: the middle one of three records was deleted in local mode, the
\* other two stay in their order
C22_Witness ==
    /\ lastOp = Op("deleteExpense", "e2", 1)
    /\ ~useCloud
    /\ Len(expenses) = 2
    /\ expenses[1].id = "e3" /\ expenses[2].id = "e1"

\* both clients are in cloud mode and every notification of a write has been
\* delivered to them
Delivered ==
    /\ mounted /\ useCloud /\ ~expensesNotify
    /\ authMounted /\ authUseCloud /\ ~usersNotify
    /\ peer.expensesSeen = expensesStore
    /\ peer.usersSeen = usersStore

\* the collections of both clients are the content of the store
Converged ==
    /\ expenses = SortByDate(SnapshotDocs(expensesStore))
    /\ peer.expenses = expenses
    /\ allUsers = SnapshotUsers(usersStore)
    /\ peer.allUsers = allUsers

C24_SaveThenLoadIsIdentity ==
    /\ (mounted /\ ~useCloud /\ ~crashed) =>
           loadFromLocal(track_expense_data) = expenses
    /\ (authMounted /\ ~authUseCloud /\ ~crashed) =>
           loadUsersFromLocal(track_expense_users) = allUsers

\* C25: the subscriptions are released when the providers are torn down:
\* after teardown no subscription callback runs, neither an update nor an
\* error, so the store changes the collections and the mode no more.
C25_NoCallbackAfterTeardown ==
    [][ tornDown =>
          /\ lastOp'.op \notin {"onSnapshot", "onUsersSnapshot", "onUsersSnapshotError"}
          /\ expenses' = expenses /\ allUsers' = allUsers
          /\ useCloud' = useCloud /\ authUseCloud' = authUseCloud
      ]_vars

\* C25 witness: after teardown another client rejected the record, and the
\* notifications of the store wait for listeners that are gone
C25_Witness ==
    /\ tornDown
    /\ lastOp.op = "peerUpdateStatus"
    /\ expensesNotify /\ usersNotify
    /\ useCloud /\ authUseCloud
    /\ expenses # SortByDate(SnapshotDocs(expensesStore))
    /\ allUsers # SnapshotUsers(usersStore)

FieldOf(op) ==
    CASE op = "updateUserRole" -> "role"
      [] op = "updateUserAvatar" -> "avatar"
      [] op = "updateUserPassword" -> "password"

ValueOf(op) ==
    CASE op = "updateUserRole" -> "Manager"
      [] op = "updateUserAvatar" -> "avatar.png"
      [] op = "updateUserPassword" -> "pw2"

\* C27: updateRole, updateAvatar and updatePassword change one field of one
\* account: the named field of the account with the given identifier takes
\* the new value; its other fields, the pending sub-record included, and the
\* other accounts stay as they were; an unknown identifier changes nothing
\* (the documents of the store in cloud mode, the collection in local mode).
C27_SingleFieldChange ==
    [][ lastOp'.op \in {"updateUserRole", "updateUserAvatar", "updateUserPassword"} =>
          LET id == lastOp'.arg
              f == FieldOf(lastOp'.op)
              v == ValueOf(lastOp'.op)
          IN  IF authUseCloud
              THEN /\ allUsers' = allUsers
                   /\ DOMAIN usersStore' = DOMAIN usersStore
                   /\ \A k \in DOMAIN usersStore :
                        \A g \in DOMAIN usersStore[k] :
                          usersStore'[k][g] =
                              IF k = id /\ g = f /\ lastOp'.n = 1
                              THEN v ELSE usersStore[k][g]
                   /\ id \notin DOMAIN usersStore => lastOp'.n = 0
              ELSE /\ Len(allUsers') = Len(allUsers)
                   /\ \A i \in DOMAIN allUsers :
                        \A g \in DOMAIN allUsers[i] :
                          allUsers'[i][g] =
                              IF allUsers[i].id = id /\ g = f
                              THEN v ELSE allUsers[i][g]
      ]_vars

\* C27 witness: the password of the account with a pending request was
\* changed in local mode, next to another account
C27_Witness ==
    /\ ~authUseCloud
    /\ lastOp = Op("updateUserPassword", "u1", 1)
    /\ Len(allUsers) = 2
    /\ allUsers[1].password = "pw2" /\ allUsers[1].pendingUpdates # NoPending
    /\ allUsers[2].password = "pw1"

\* the operations of the user repository
UserOperations ==
    {"login", "logout", "signup", "updateUserRole", "updateUserAvatar",
     "updateUserPassword", "requestProfileUpdate", "resolveProfileUpdate",
     "deleteUser"}

\* C28: the owner's display name on an expense is a snapshot: no operation of
\* the user repository, an approved profile update that renames the owner
\* included, changes that name or any other field of an expense record, in
\* memory, in the store or in the persisted snapshot.
C28_UserOperationsLeaveExpenses ==
    [][ lastOp'.op \in UserOperations =>
          /\ expenses' = expenses
          /\ expensesStore' = expensesStore
          /\ track_expense_data' = track_expense_data
      ]_vars

\* C28 witness: the approved update renamed the owner, whose expense still
\* carries the name it was submitted under
C28_Witness ==
    /\ lastOp = Op("resolveProfileUpdate", "u1", 1)
    /\ ~authUseCloud
    /\ user.id = "u1" /\ user.name = "Alice B"
    /\ \E i \in DOMAIN expenses :
          expenses[i].userId = "u1" /\ expenses[i].userName = "Admin"

\* a resolution that was written to the store
ResolveWritten(step) ==
    step.op = "resolveProfileUpdate" /\ step.n = 1 /\ step.err = ""

\* C29: in cloud mode resolveProfileUpdate loses no concurrent write: it
\* writes the name, the email and the pending sub-record only, so the role,
\* avatar and password another client wrote since the resolving client's last
\* notification are still in the store after the resolution.
C29_ResolveKeepsConcurrentWrites ==
    [][ (authUseCloud /\ ResolveWritten(lastOp')) =>
          LET id == lastOp'.arg
          IN  id \in DOMAIN usersStore =>
                \A g \in {"role", "avatar", "password"} :
                    usersStore'[id][g] = usersStore[id][g]
      ]_vars

\* C30: in cloud mode a pending request is neither discarded nor mis-applied
\* under concurrency: an approval applies the values of the request the store
\* holds, and no resolution removes a request the resolving client has not
\* seen without applying it.
C30_ResolveActsOnNewestRequest ==
    [][ (authUseCloud /\ ResolveWritten(lastOp')) =>
          LET id == lastOp'.arg
              seen == FindById(allUsers, id).pendingUpdates
              held == IF id \in DOMAIN usersStore
                      THEN usersStore[id].pendingUpdates ELSE NoPending
          IN  held # NoPending =>
                IF lastInput'.approve
                THEN /\ usersStore'[id].name = held.name
                     /\ usersStore'[id].email = held.email
                ELSE held # seen => usersStore'[id].pendingUpdates = held
      ]_vars

\* C31: a deleted user stays deleted: once the account is gone from the
\* store, no operation other than signup, which makes a fresh identifier,
\* puts a document with its identifier back, whatever the view of the client
\* that issues it.
C31_DeletedUserStaysDeleted ==
    [][ ("u1" \notin DOMAIN usersStore /\ "u1" \in DOMAIN usersStore') =>
            lastOp'.op = "signup"
      ]_vars

\* C32: in local mode, after any sequence of signup, requestProfileUpdate,
\* resolveProfileUpdate and deleteUser from accounts with distinct addresses,
\* no two accounts have addresses that are equal ignoring case.
C32_AddressesDistinctIgnoringCase ==
    (authMounted /\ ~authUseCloud) =>
        \A i, j \in DOMAIN allUsers :
            ToLowerCase(allUsers[i].email) = ToLowerCase(allUsers[j].email) => i = j

\* C33: the session is consistent with the user collection: once loading
\* has finished, a current user is an account of the in-memory collection
\* with the same field values, and the session identifier is persisted
\* exactly when there is a current user.
C33_SessionConsistent ==
    (authMounted /\ ~isLoading) =>
        /\ user # NoUser => FindById(allUsers, user.id) = user
        /\ (billboard_user_id # "") <=> (user # NoUser)

\* the accounts of users that signup created
CreatedAccounts(users) ==
    {users[i].id : i \in DOMAIN users} \ {MOCK_USERS[1].id}

\* C34: a signup that established a session is durable: in either mode, and
\* also when the account was added by the fallback of a failed cloud write,
\* the account is not removed from the in-memory collection by a later
\* subscription update, where no operation removes accounts.
C34_SignupDurable ==
    [][ CreatedAccounts(allUsers) \subseteq CreatedAccounts(allUsers') ]_vars

\* C35: the two repositories operate in the same mode: once both providers
\* have started, also after a cloud subscription error, either both are in
\* cloud mode or both are in local mode.
C35_SameMode ==
    (mounted /\ authMounted) => (useCloud <=> authUseCloud)

\* the steps of start-up: the mount effects and the subscription callbacks
StartUpOps ==
    {"mount", "mountAuth", "onSnapshot", "onUsersSnapshot", "onUsersSnapshotError"}

\* C36: start-up alone never alters persisted data: in both modes, a step of
\* start-up leaves a persisted expense or user collection as it was; it is
\* not overwritten with an empty array while the data is loaded or cloud
\* mode is selected.
C36_StartUpKeepsPersistedData ==
    [][ lastOp'.op \in StartUpOps =>
          /\ track_expense_data.kind = "array" =>
                track_expense_data' = track_expense_data
          /\ track_expense_users.kind = "array" =>
                track_expense_users' = track_expense_users
      ]_vars

\* C37: when a cloud subscription error demotes the User Repository to local
\* mode, the in-memory user collection becomes the collection persisted
\* before the process started, or the seed accounts if none was persisted
\* (the case of SpecMode); it is not the empty collection.
C37_DemotionLoadsPersistedUsers ==
    lastOp.op = "onUsersSnapshotError" =>
        /\ ~authUseCloud
        /\ allUsers = MOCK_USERS

\* C39: expense identifiers are unique within the in-memory collection: in
\* either mode no two records of the collection have the same identifier,
\* also when create is invoked more than once with the same identifier.
C39_IdentifiersUnique ==
    \A i, j \in DOMAIN expenses : expenses[i].id = expenses[j].id => i = j

\* C38: cloud mode and local mode are equivalent for a single client: after
\* the same sequence of expense and user calls from the same collections,
\* the collection a cloud-mode client holds once its writes are redelivered
\* (the snapshot of the store) has the same records, field values and order
\* as the collection of the local-mode client.
C38_ModesEquivalent ==
    BothReady =>
        /\ expenses = SortByDate(SnapshotDocs(expensesStore))
        /\ allUsers = SnapshotUsers(usersStore)

====
